---- MODULE Spec2Model ----
(***************************************************************************)
(* Model of electrolite's request router (APIClass: route registration,   *)
(* query parsing, route resolution and the middleware pipeline), of       *)
(* Window.apply's two-table dispatch and of the IPC bridge around it.      *)
(* Strings are sequences of one-character strings, so that splitting,     *)
(* parsing and matching are computed and not assumed.                     *)
(***************************************************************************)
EXTENDS Integers, Sequences, FiniteSets, TLC

VARIABLES routes, hasRoutes, middleware, lastError, disp, input, output,
          getWindow, windowsStack, settings, file, desk, events

\* SettingsClass's map and file, DesktopClass's own fields, the event calls
deskVars == <<settings, file, desk, events>>

vars == <<routes, hasRoutes, middleware, lastError, disp, input, output,
          getWindow, windowsStack, deskVars>>

(***************************************************************************)
(* Bounds of the model.                                                    *)
(***************************************************************************)
\* longest route list of one method of one table
MaxRoutes == 2
\* longest middleware chain of one table
MaxMiddleware == 2
\* longest generated string in the parser models
MaxLen == 4
\* most segments of a generated path in the matcher model
MaxSegs == 3
\* longest middleware chain while two dispatches are in flight
MaxChainC == 1
\* longest screen preference list
MaxPrefs == 3

(***************************************************************************)
(* Scopes: the global table (DesktopClass.API) and one table per window   *)
(* (Window.API).                                                           *)
(***************************************************************************)
Windows == {"w1", "w2"}
Global == "global"
Scopes == {Global} \cup Windows
Methods == {"get", "post"}

(***************************************************************************)
(* String.prototype.split with a one-character separator.                  *)
(***************************************************************************)
RECURSIVE Split(_, _)
Split(s, sep) ==
    IF \A i \in 1..Len(s) : s[i] # sep
    THEN <<s>>
    ELSE LET k == CHOOSE i \in 1..Len(s) :
                    s[i] = sep /\ \A j \in 1..(i - 1) : s[j] # sep
         IN  <<SubSeq(s, 1, k - 1)>> \o Split(SubSeq(s, k + 1, Len(s)), sep)

EmptyMap == [k \in {} |-> <<>>]

Bind(acc, name, value) ==
    [k \in (DOMAIN acc) \cup {name} |-> IF k = name THEN value ELSE acc[k]]

(***************************************************************************)
(* routeParser.match (lib/route-parser.js): the params map of a match, or *)
(* no match.  A ':name' segment binds, a literal segment must be equal, a  *)
(* final '*' segment matches the remainder, otherwise the segment counts   *)
(* must agree.                                                             *)
(***************************************************************************)
NoMatch == [ok |-> FALSE, params |-> EmptyMap]

WildSeg == <<"*">>

IsParamSeg(seg) == Len(seg) > 0 /\ seg[1] = ":"

\* matchSegs without the segment count check: extra path segments pass
RECURSIVE matchSegs_NoCount(_, _, _)
matchSegs_NoCount(ps, cs, acc) ==
    IF ps = <<>>
    THEN [ok |-> TRUE, params |-> acc]
    ELSE IF Len(ps) = 1 /\ ps[1] = WildSeg
    THEN [ok |-> TRUE, params |-> acc]
    ELSE IF cs = <<>>
    THEN NoMatch
    ELSE IF IsParamSeg(ps[1])
    THEN matchSegs_NoCount(Tail(ps), Tail(cs),
                           Bind(acc, SubSeq(ps[1], 2, Len(ps[1])), cs[1]))
    ELSE IF ps[1] = cs[1]
    THEN matchSegs_NoCount(Tail(ps), Tail(cs), acc)
    ELSE NoMatch

RECURSIVE matchSegs(_, _, _)
matchSegs(ps, cs, acc) ==
    IF ps = <<>>
    THEN IF cs = <<>> THEN [ok |-> TRUE, params |-> acc] ELSE NoMatch
    ELSE IF Len(ps) = 1 /\ ps[1] = WildSeg
    THEN [ok |-> TRUE, params |-> acc]
    ELSE IF cs = <<>>
    THEN NoMatch
    ELSE IF IsParamSeg(ps[1])
    THEN matchSegs(Tail(ps), Tail(cs),
                   Bind(acc, SubSeq(ps[1], 2, Len(ps[1])), cs[1]))
    ELSE IF ps[1] = cs[1]
    THEN matchSegs(Tail(ps), Tail(cs), acc)
    ELSE NoMatch

match(pattern, path) == matchSegs(Split(pattern, "/"), Split(path, "/"), EmptyMap)

(***************************************************************************)
(* APIClass.#getRouteAndParams                                             *)
(***************************************************************************)
RECURSIVE queryOf(_, _)
queryOf(entries, acc) ==
    IF entries = <<>>
    THEN acc
    ELSE LET argAndValue == Split(Head(entries), "=")
         IN  queryOf(Tail(entries),
                     IF Len(argAndValue) = 2
                     THEN Bind(acc, argAndValue[1], argAndValue[2])
                     ELSE acc)

getRouteAndParams(routeWithQueryParams) ==
    LET routeAndQueryParams == Split(routeWithQueryParams, "?")
        rest == IF Len(routeAndQueryParams) >= 2
                THEN routeAndQueryParams[2] ELSE <<>>
    IN  [route |-> routeAndQueryParams[1],
         query |-> queryOf(Split(rest, "&"), EmptyMap)]

(***************************************************************************)
(* Callables and the values they produce.  A handler is the callback of    *)
(* the i-th route of a method of a table, a middleware the k-th entry of a *)
(* table's middleware list.                                                *)
(***************************************************************************)
NoC == [kind |-> "none", scope |-> "-", method |-> "-", idx |-> 0]
TypeErrC == [kind |-> "TypeError", scope |-> "-", method |-> "-", idx |-> 0]
Mw(s, k) == [kind |-> "mw", scope |-> s, method |-> "-", idx |-> k]
H(s, m, i) == [kind |-> "h", scope |-> s, method |-> m, idx |-> i]

Undefined == [t |-> "undefined", c |-> NoC]
Ret(c) == [t |-> "ret", c |-> c]
Resp(c) == [t |-> "resp", c |-> c]
Err(c) == [t |-> "err", c |-> c]
TypeError == Err(TypeErrC)

Ev(e, c) == [ev |-> e, c |-> c]

(***************************************************************************)
(* Route strings.                                                          *)
(***************************************************************************)
S_a == <<"/", "a">>
S_id == <<"/", ":", "i", "d">>
S_a_q == <<"/", "a", "?", "x", "=", "1">>
S_a_b == <<"/", "a", "/", "b">>
S_ping == <<"/", "p", "i", "n", "g">>
S_pstar == <<"/", "p", "*">>
S_pistar == <<"/", "p", "i", "*">>
S_p_star == <<"/", "p", "/", "*">>
S_p_ing == <<"/", "p", "/", "i", "n", "g">>

\* routes registered and paths dispatched in the dispatch model
RoutesD == {S_id}
PathsD == {S_a_q, S_a_b}
ScopesD == {Global, "w1"}
Dispatches == {"d1"}
\* routes registered in the registration model
RoutesReg == {S_ping, S_pstar, S_pistar, S_p_star, S_p_ing, S_id}

(***************************************************************************)
(* APIClass registration: use, get, post, throwErrorIfExists.              *)
(***************************************************************************)
\* throwErrorIfExists looking at the routes of every method
throwErrorIfExists_AnyMethod(table, route, method) ==
    \E m \in Methods :
        \E i \in 1..Len(table[m]) : match(table[m][i].path, route).ok

\* throwErrorIfExists comparing the route strings only
throwErrorIfExists_SameString(table, route, method) ==
    \E i \in 1..Len(table[method]) : table[method][i].path = route

throwErrorIfExists(table, route, method) ==
    \E i \in 1..Len(table[method]) : match(table[method][i].path, route).ok

get(s, route) ==
    /\ IF throwErrorIfExists(routes[s], route, "get")
       THEN /\ lastError' = "exists"
            /\ UNCHANGED <<routes, hasRoutes>>
       ELSE /\ Len(routes[s]["get"]) < MaxRoutes
            /\ lastError' = "none"
            /\ hasRoutes' = [hasRoutes EXCEPT ![s] = TRUE]
            /\ routes' = [routes EXCEPT ![s]["get"] =
                   Append(@, [path |-> route,
                              callback |-> H(s, "get", Len(@) + 1)])]
    /\ UNCHANGED <<middleware, disp, input, output, getWindow,
                   windowsStack, deskVars>>

post(s, route) ==
    /\ IF throwErrorIfExists(routes[s], route, "post")
       THEN /\ lastError' = "exists"
            /\ UNCHANGED <<routes, hasRoutes>>
       ELSE /\ Len(routes[s]["post"]) < MaxRoutes
            /\ lastError' = "none"
            /\ hasRoutes' = [hasRoutes EXCEPT ![s] = TRUE]
            /\ routes' = [routes EXCEPT ![s]["post"] =
                   Append(@, [path |-> route,
                              callback |-> H(s, "post", Len(@) + 1)])]
    /\ UNCHANGED <<middleware, disp, input, output, getWindow,
                   windowsStack, deskVars>>

use(s) ==
    /\ Len(middleware[s]) < MaxMiddleware
    /\ middleware' = [middleware EXCEPT ![s] = Append(@, Mw(s, Len(@) + 1))]
    /\ lastError' = "none"
    /\ UNCHANGED <<routes, hasRoutes, disp, input, output, getWindow,
                   windowsStack, deskVars>>

\* Window.use calls this.API.middleware, which APIClass does not define
WindowUse(w) ==
    /\ lastError' = "TypeError"
    /\ UNCHANGED <<routes, hasRoutes, middleware, disp, input, output,
                   getWindow, windowsStack, deskVars>>

(***************************************************************************)
(* APIClass.getRoute, the resolving part: the first route of the method    *)
(* whose pattern matches the path before the '?'.                          *)
(***************************************************************************)
\* getRoute taking the first route of the method without the match test
getRoute_NoMatchTest(table, routeWithQueryParams, method) ==
    LET rq == getRouteAndParams(routeWithQueryParams)
    IN  IF table[method] = <<>>
        THEN [found |-> FALSE, i |-> 0, route |-> rq.route, query |-> rq.query,
              params |-> EmptyMap]
        ELSE [found |-> TRUE, i |-> 1, route |-> rq.route, query |-> rq.query,
              params |-> match(table[method][1].path, rq.route).params]

\* getRoute without its break: the last matching route of the method wins
getRoute_LastMatch(table, routeWithQueryParams, method) ==
    LET rq == getRouteAndParams(routeWithQueryParams)
        hits == {i \in 1..Len(table[method]) :
                    match(table[method][i].path, rq.route).ok}
    IN  IF hits = {}
        THEN [found |-> FALSE, i |-> 0, route |-> rq.route, query |-> rq.query,
              params |-> EmptyMap]
        ELSE LET i == CHOOSE j \in hits : \A k \in hits : j >= k
             IN  [found |-> TRUE, i |-> i, route |-> rq.route,
                  query |-> rq.query,
                  params |-> match(table[method][i].path, rq.route).params]

getRoute(table, routeWithQueryParams, method) ==
    LET rq == getRouteAndParams(routeWithQueryParams)
        hits == {i \in 1..Len(table[method]) :
                    match(table[method][i].path, rq.route).ok}
    IN  IF hits = {}
        THEN [found |-> FALSE, i |-> 0, route |-> rq.route, query |-> rq.query,
              params |-> EmptyMap]
        ELSE LET i == CHOOSE j \in hits : \A k \in hits : j <= k
             IN  [found |-> TRUE, i |-> i, route |-> rq.route,
                  query |-> rq.query,
                  params |-> match(table[method][i].path, rq.route).params]

(***************************************************************************)
(* What one call of a callable does.  A middleware is called with          *)
(* (req, res, next) and may call res, may call next (the next entry of     *)
(* traceCall, handed over as it is), and then returns, throws or never     *)
(* settles.  A handler takes req and returns, throws or never settles.     *)
(***************************************************************************)
Outcomes == {"return", "throw", "hang"}
MwKinds == [resp : BOOLEAN, nxt : BOOLEAN, out : Outcomes]
HandlerKinds == [resp : {FALSE}, nxt : {FALSE}, out : Outcomes]
KindsOf(c) == IF c.kind = "mw" THEN MwKinds ELSE HandlerKinds

Settled(out, c) ==
    IF out = "return" THEN <<Ev("end", c)>>
    ELSE IF out = "throw" THEN <<Ev("throw", c)>>
    ELSE <<>>

\* c2 called by a middleware as next(req, res): its own next is undefined
Nested(c2, k2) ==
    LET out == IF k2.nxt THEN "throw" ELSE k2.out
    IN  [log  |-> <<Ev("start", c2)>>
                  \o (IF k2.resp THEN <<Ev("respond", c2)>> ELSE <<>>)
                  \o Settled(out, c2),
         resp |-> k2.resp,
         bv   |-> Resp(c2),
         out  |-> out,
         val  |-> IF out = "return" THEN Ret(c2)
                  ELSE IF k2.nxt THEN TypeError ELSE Err(c2)]

\* c, already started, runs to its end; nextC is the next it was handed
Call(c, k, nextC, k2) ==
    LET own == IF k.resp THEN <<Ev("respond", c)>> ELSE <<>>
        n   == Nested(nextC, k2)
    IN  IF ~k.nxt
        THEN [log |-> own \o Settled(k.out, c), resp |-> k.resp,
              bv |-> Resp(c), out |-> k.out,
              val |-> IF k.out = "return" THEN Ret(c) ELSE Err(c)]
        ELSE IF nextC = NoC
        THEN [log |-> own \o <<Ev("throw", c)>>, resp |-> k.resp,
              bv |-> Resp(c), out |-> "throw", val |-> TypeError]
        ELSE IF n.out = "return"
        THEN [log |-> own \o n.log \o Settled(k.out, c),
              resp |-> k.resp \/ n.resp,
              bv |-> IF n.resp THEN n.bv ELSE Resp(c), out |-> k.out,
              val |-> IF k.out = "return" THEN Ret(c) ELSE Err(c)]
        ELSE [log |-> own \o n.log \o Settled(n.out, c),
              resp |-> k.resp \/ n.resp,
              bv |-> IF n.resp THEN n.bv ELSE Resp(c), out |-> n.out,
              val |-> n.val]

(***************************************************************************)
(* One dispatch: the request built by the pipeline closure of getRoute,    *)
(* the closure's local variables, its position, and the calls it made.     *)
(***************************************************************************)
NoReq == [url |-> <<>>, method |-> "-", params |-> EmptyMap,
          query |-> EmptyMap, pathname |-> <<>>, body |-> "-"]

Idle == [pc |-> "idle", win |-> "-", route |-> <<>>, method |-> "-",
         table |-> "-", req |-> NoReq,
         lastCallback |-> NoC, chained |-> FALSE, traceCall |-> <<>>,
         cursor |-> 0, breakpoint |-> FALSE, breakValue |-> Undefined,
         result |-> Undefined, log |-> <<>>, seen |-> "-", i |-> 0]

Upper(method) == IF method = "get" THEN "GET" ELSE "POST"

Cur(dd) == IF dd.chained THEN dd.traceCall[dd.cursor] ELSE dd.lastCallback

NextOf(dd) ==
    IF dd.chained /\ dd.cursor < Len(dd.traceCall)
    THEN dd.traceCall[dd.cursor + 1] ELSE NoC

(***************************************************************************)
(* Window.apply, called by DesktopClass.onCallAPI for the sending window:  *)
(* resolve in the window's table, else in the global table, and start the  *)
(* pipeline, which runs up to its first await.                             *)
(***************************************************************************)
\* Window.apply asking the global table first
applyScope_GlobalFirst(w, route, method) ==
    IF getRoute(routes[Global], route, method).found THEN Global
    ELSE IF getRoute(routes[w], route, method).found THEN w
    ELSE "-"

\* the table whose getRoute answer Window.apply uses ("-": neither)
applyScope(w, route, method) ==
    IF getRoute(routes[w], route, method).found THEN w
    ELSE IF getRoute(routes[Global], route, method).found THEN Global
    ELSE "-"

\* every pipeline reading the global middleware list
chainOf_Global(scope) == middleware[Global]

\* a pipeline that reads no middleware list
chainOf_None(scope) == <<>>

\* the middleware list the pipeline of a table's route reads
chainOf(scope) == middleware[scope]

apply(d, w, route, method, values) ==
    /\ disp[d].pc = "idle"
    /\ LET scope == applyScope(w, route, method)
           r     == getRoute(routes[scope], route, method)
           req   == [url |-> r.route, method |-> Upper(method),
                     params |-> r.params, query |-> r.query,
                     pathname |-> route,
                     body |-> IF method = "post" THEN values ELSE "-"]
           cb    == routes[scope][method][r.i].callback
           call  == [Idle EXCEPT !.win = w, !.route = route,
                                 !.method = method]
       IN  disp' = [disp EXCEPT ![d] =
             IF scope = "-"
             THEN [call EXCEPT !.pc = "done"]
             ELSE IF chainOf(scope) = <<>>
             THEN [call EXCEPT !.pc = "await", !.table = scope,
                               !.req = req, !.lastCallback = cb,
                               !.log = <<Ev("start", cb)>>]
             ELSE [call EXCEPT !.pc = "loop", !.table = scope,
                               !.req = req, !.lastCallback = cb,
                               !.chained = TRUE,
                               !.traceCall = chainOf(scope) \o <<cb>>]]
    /\ getWindow' = IF applyScope(w, route, method) = "-" THEN getWindow ELSE w
    /\ UNCHANGED <<routes, hasRoutes, middleware, lastError, input, output,
                   windowsStack, deskVars>>

\* the head of one iteration of the for-await loop over traceCall
LoopStep(d) ==
    /\ disp[d].pc = "loop"
    /\ LET dd == disp[d]
       IN  disp' = [disp EXCEPT ![d] =
             IF dd.breakpoint
             THEN [dd EXCEPT !.pc = "done", !.result = dd.breakValue]
             ELSE [dd EXCEPT !.pc = "await", !.cursor = dd.cursor + 1,
                      !.log = Append(dd.log,
                                 Ev("start", dd.traceCall[dd.cursor + 1]))]]
    /\ UNCHANGED <<routes, hasRoutes, middleware, lastError, input, output,
                   getWindow, windowsStack, deskVars>>

\* a pipeline that returns although the call it awaits never settles
pcAfter_HangReturns(out, more) ==
    IF out = "return" /\ more THEN "loop" ELSE "done"

\* the pipeline without its catch: a throw rejects the pipeline's promise
pcAfter_NoCatch(out, more) ==
    IF out = "hang" THEN "hung"
    ELSE IF out = "throw" THEN "rejected"
    ELSE IF more THEN "loop"
    ELSE "done"

\* try { ... return result } catch(error) { return error }: where the
\* pipeline goes when the awaited call has settled with out
pcAfter(out, more) ==
    IF out = "hang" THEN "hung"
    ELSE IF out = "return" /\ more THEN "loop"
    ELSE "done"

\* the awaited call settles (or turns out never to settle)
Settle(d) ==
    /\ disp[d].pc = "await"
    /\ \E k \in KindsOf(Cur(disp[d])), k2 \in KindsOf(NextOf(disp[d])) :
         LET dd == disp[d]
             r  == Call(Cur(dd), k, NextOf(dd), k2)
             more == dd.chained /\ dd.cursor < Len(dd.traceCall)
         IN  disp' = [disp EXCEPT ![d] =
               [dd EXCEPT
                  !.log = dd.log \o r.log,
                  !.breakpoint = dd.breakpoint \/ r.resp,
                  !.breakValue = IF r.resp THEN r.bv ELSE dd.breakValue,
                  !.result = IF r.out = "hang" THEN dd.result ELSE r.val,
                  !.seen = IF r.out = "hang" THEN dd.seen ELSE getWindow,
                  !.pc = pcAfter(r.out, more)]]
    /\ UNCHANGED <<routes, hasRoutes, middleware, lastError, input, output,
                   getWindow, windowsStack, deskVars>>

\* lib/preloadTemplate.js errorWrapper: what the renderer's caller receives
errorWrapper(res) ==
    IF res.t = "err" THEN [t |-> "UNCAUGHT_ERROR", c |-> res.c] ELSE res

(***************************************************************************)
(* DesktopClass and SettingsClass as constructed.  settings is #settings   *)
(* as the sequence of its properties in insertion order, file the content  *)
(* of saved-settings.json.  desk holds DesktopClass's fields: hooks is the *)
(* listeners of electrolite.on in registration order, protocols the        *)
(* registered scheme names, allClosed the handlers subscribed to the app's *)
(* 'window-all-closed' event, ipc the channels subscribed on ipcMain,      *)
(* handled the schemes given to protocol.handle, pc the position of init,  *)
(* created the number of windows constructed, open the ids of the          *)
(* BrowserWindows not closed and quit whether app.quit was called.  events *)
(* holds the listener calls of the last renderer emit and the sends of the *)
(* last emit of the main process.                                          *)
(***************************************************************************)
NoFile == [exists |-> FALSE, text |-> <<>>]
NoEvents == [delivered |-> <<>>, sent |-> <<>>]
allowedModes == {"keepAlive", "exitOnAllClose"}
Platforms == {"linux", "darwin"}

NewDesktop ==
    [hasInit |-> FALSE, mode |-> "exitOnAllClose", protocols |-> <<>>,
     hooks |-> <<>>, allClosed |-> <<>>, ipc |-> {"get-config"},
     handled |-> <<>>, pc |-> "new", created |-> 0, open |-> {},
     quit |-> FALSE, platform |-> "linux"]

\* DesktopClass once init has returned, nothing else having been called
ReadyDesktop ==
    [NewDesktop EXCEPT !.hasInit = TRUE, !.pc = "done",
                       !.allClosed = <<"inline", "onAllWindowsClosed">>,
                       !.ipc = {"get-config", "callAPI", "emit"}]

NoDesktop ==
    /\ settings = <<>>
    /\ file = NoFile
    /\ desk = NewDesktop
    /\ events = NoEvents

InitedDesktop ==
    /\ settings = <<>>
    /\ file = NoFile
    /\ desk = ReadyDesktop
    /\ events = NoEvents

(***************************************************************************)
(* The router: registration and dispatch.                                  *)
(***************************************************************************)
NoInput == <<>>
NoOutput == [set |-> FALSE]

Init ==
    /\ routes = [s \in Scopes |-> [m \in Methods |-> <<>>]]
    /\ hasRoutes = [s \in Scopes |-> FALSE]
    /\ middleware = [s \in Scopes |-> <<>>]
    /\ lastError = "none"
    /\ disp = [d \in Dispatches |-> Idle]
    /\ input = NoInput
    /\ output = NoOutput
    /\ getWindow = "-"
    /\ windowsStack = <<>>
    /\ NoDesktop

Next ==
    \/ \E s \in ScopesD, r \in RoutesD : get(s, r)
    \/ \E s \in ScopesD, r \in RoutesD : post(s, r)
    \/ \E s \in ScopesD : use(s)
    \/ \E w \in ScopesD \ {Global} : WindowUse(w)
    \/ \E d \in Dispatches, w \in ScopesD \ {Global}, p \in PathsD, m \in Methods :
          apply(d, w, p, m, "payload")
    \/ \E d \in Dispatches : LoopStep(d)
    \/ \E d \in Dispatches : Settle(d)

Spec == Init /\ [][Next]_vars

(***************************************************************************)
(* The registration model: get and post on one table, over patterns that   *)
(* collide and patterns that do not.                                       *)
(***************************************************************************)
NextReg ==
    \/ \E r \in RoutesReg : get(Global, r)
    \/ \E r \in RoutesReg : post(Global, r)

SpecReg == Init /\ [][NextReg]_vars

(***************************************************************************)
(* The matcher model: one pattern registered, one path resolved.           *)
(***************************************************************************)
S_user == <<"u", "s", "e", "r">>
S_42 == <<"4", "2">>
S_extra == <<"e", "x", "t", "r", "a">>
S_user_id == <<"/">> \o S_user \o <<"/", ":", "i", "d">>
S_user_star == <<"/">> \o S_user \o <<"/", "*">>
S_user_42 == <<"/">> \o S_user \o <<"/">> \o S_42
S_user_42_extra == S_user_42 \o <<"/">> \o S_extra
S_x_x == <<"/", ":", "x", "/", ":", "x">>
S_star_user == <<"/", "*", "/">> \o S_user
S_id_star == <<"/", ":", "i", "d", "/", "*">>

SegsM == {S_user, S_42, S_extra}
PatternsM == {S_user_id, S_user_star, S_user_42, S_x_x, S_star_user, S_id_star}

RECURSIVE JoinPath(_)
JoinPath(segs) ==
    IF segs = <<>> THEN <<>> ELSE <<"/">> \o Head(segs) \o JoinPath(Tail(segs))

PathsM == {JoinPath(ss) : ss \in UNION {[1..n -> SegsM] : n \in 0..MaxSegs}}

InitMatch ==
    /\ routes = [s \in Scopes |-> [m \in Methods |-> <<>>]]
    /\ hasRoutes = [s \in Scopes |-> FALSE]
    /\ middleware = [s \in Scopes |-> <<>>]
    /\ lastError = "none"
    /\ disp = [d \in Dispatches |-> Idle]
    /\ input \in [pattern : PatternsM, path : PathsM]
    /\ output = NoOutput
    /\ getWindow = "-"
    /\ windowsStack = <<>>
    /\ NoDesktop

\* register the pattern in an empty table
MatchRegister ==
    /\ routes[Global]["get"] = <<>>
    /\ get(Global, input.pattern)

\* resolve the path against it
MatchResolve ==
    /\ routes[Global]["get"] # <<>>
    /\ ~output.set
    /\ output' = [set |-> TRUE,
                  res |-> getRoute(routes[Global], input.path, "get")]
    /\ UNCHANGED <<routes, hasRoutes, middleware, lastError, disp, input,
                   getWindow, windowsStack, deskVars>>

NextMatch == MatchRegister \/ MatchResolve

SpecMatch == InitMatch /\ [][NextMatch]_vars

(***************************************************************************)
(* The query parser model: one dispatched path string split into route    *)
(* and query.                                                              *)
(***************************************************************************)
QAlphabet == {"a", "?", "&", "="}
S_a_x1_y2 == <<"/", "a", "?", "x", "=", "1", "&", "y", "=", "2">>
S_a_bad_x1 == <<"/", "a", "?", "b", "a", "d", "&", "x", "=", "1">>
S_a_x1_q_y2 == <<"/", "a", "?", "x", "=", "1", "?", "y", "=", "2">>
S_a_xx == <<"/", "a", "?", "x", "=", "1", "&", "x", "=", "2">>
S_a_eqeq == <<"/", "a", "?", "x", "=", "1", "=", "2", "&", "=", "&", "y", "=">>

StringsQ ==
    UNION {[1..n -> QAlphabet] : n \in 0..MaxLen}
    \cup {S_a, S_a_x1_y2, S_a_bad_x1, S_a_x1_q_y2, S_a_xx, S_a_eqeq}

InitQuery ==
    /\ routes = [s \in Scopes |-> [m \in Methods |-> <<>>]]
    /\ hasRoutes = [s \in Scopes |-> FALSE]
    /\ middleware = [s \in Scopes |-> <<>>]
    /\ lastError = "none"
    /\ disp = [d \in Dispatches |-> Idle]
    /\ input \in StringsQ
    /\ output = NoOutput
    /\ getWindow = "-"
    /\ windowsStack = <<>>
    /\ NoDesktop

QueryParse ==
    /\ ~output.set
    /\ output' = [set |-> TRUE, res |-> getRouteAndParams(input)]
    /\ UNCHANGED <<routes, hasRoutes, middleware, lastError, disp, input,
                   getWindow, windowsStack, deskVars>>

NextQuery == QueryParse

SpecQuery == InitQuery /\ [][NextQuery]_vars

(***************************************************************************)
(* Dispatches in flight together: two IPC calls, each from either window,  *)
(* resolved on the global table and interleaved at their awaits on the     *)
(* single thread of the main process.                                      *)
(***************************************************************************)
DispatchesC == {"d1", "d2"}

InitConc ==
    /\ routes = [s \in Scopes |-> [m \in Methods |-> <<>>]]
    /\ hasRoutes = [s \in Scopes |-> FALSE]
    /\ middleware = [s \in Scopes |-> <<>>]
    /\ lastError = "none"
    /\ disp = [d \in DispatchesC |-> Idle]
    /\ input = NoInput
    /\ output = NoOutput
    /\ getWindow = "-"
    /\ windowsStack = <<>>
    /\ NoDesktop

NextConc ==
    \/ get(Global, S_id)
    \/ Len(middleware[Global]) < MaxChainC /\ use(Global)
    \/ \E d \in DispatchesC, w \in Windows : apply(d, w, S_a_q, "get", "payload")
    \/ \E d \in DispatchesC : LoopStep(d)
    \/ \E d \in DispatchesC : Settle(d)

SpecConc == InitConc /\ [][NextConc]_vars

(***************************************************************************)
(* Properties of the dispatch pipeline.                                    *)
(***************************************************************************)
Has(dd, e, c) == \E i \in 1..Len(dd.log) : dd.log[i] = Ev(e, c)

HasEv(dd, e) == \E i \in 1..Len(dd.log) : dd.log[i].ev = e

\* every call of the dispatch so far was made by the pipeline's own loop
LoopOnly(dd) ==
    Cardinality({i \in 1..Len(dd.log) : dd.log[i].ev = "start"})
        = IF dd.chained THEN dd.cursor ELSE 1

\* the calls of a chain run one after the other, each to its end
SequentialLog(tc) ==
    [i \in 1..(2 * Len(tc)) |->
        IF i % 2 = 1 THEN Ev("start", tc[(i + 1) \div 2])
        ELSE Ev("end", tc[i \div 2])]

IsPrefix(a, b) == Len(a) <= Len(b) /\ a = SubSeq(b, 1, Len(a))

\* the step in which dispatch d is resolved and its pipeline started
ApplyStep(d) == disp[d].pc = "idle" /\ disp'[d].pc # "idle"

\* the table has a route of the method whose pattern matches the path
HasMatch(table, route, method) ==
    \E i \in 1..Len(table[method]) :
        match(table[method][i].path, Head(Split(route, "?"))).ok

\* C1: if a middleware mi of the chain calls its respond callback with v,
\* no middleware registered after mi and not the handler is called in that
\* dispatch, and the dispatch result is v.
C1_RespondShortCircuits ==
    \A d \in Dispatches :
        LET dd == disp[d]
        IN  dd.chained =>
            \A i \in 1..(Len(dd.traceCall) - 1) :
                Has(dd, "respond", dd.traceCall[i]) =>
                    /\ \A j \in (i + 1)..Len(dd.traceCall) :
                          ~Has(dd, "start", dd.traceCall[j])
                    /\ dd.pc = "done" => dd.result = Resp(dd.traceCall[i])

\* The part of C1 that holds: when every call is made by the loop and the
\* responding middleware returns, nothing after it is called and the value
\* it passed to respond is the result.
C1_RespondWhenLoopOnly ==
    \A d \in Dispatches :
        LET dd == disp[d]
        IN  (dd.chained /\ LoopOnly(dd)) =>
            \A i \in 1..(Len(dd.traceCall) - 1) :
                (/\ Has(dd, "respond", dd.traceCall[i])
                 /\ Has(dd, "end", dd.traceCall[i])) =>
                    /\ \A j \in (i + 1)..Len(dd.traceCall) :
                          ~Has(dd, "start", dd.traceCall[j])
                    /\ dd.pc = "done" => dd.result = Resp(dd.traceCall[i])

\* C2: when a middleware or the handler throws, nothing more of the dispatch
\* runs, and the dispatch completes with a value carrying the failure (the
\* thrown error, which the renderer receives as UNCAUGHT_ERROR); the promise
\* of the pipeline is never rejected.
C2_ThrowIsReturned ==
    \A d \in Dispatches :
        LET dd == disp[d]
            throws == {i \in 1..Len(dd.log) : dd.log[i].ev = "throw"}
        IN  /\ dd.pc \in {"idle", "loop", "await", "hung", "done"}
            /\ throws # {} =>
                 LET f == CHOOSE i \in throws : \A j \in throws : i <= j
                 IN  /\ dd.pc = "done"
                     /\ dd.result \in {Err(dd.log[f].c), TypeError}
                     /\ \A j \in f..Len(dd.log) : dd.log[j].ev = "throw"
                     /\ errorWrapper(dd.result)
                          = [t |-> "UNCAUGHT_ERROR", c |-> dd.result.c]

C2_Witness ==
    \E d \in Dispatches :
        LET dd == disp[d]
        IN  /\ dd.pc = "done"
            /\ dd.chained
            /\ dd.cursor = 2
            /\ dd.log = <<Ev("start", dd.traceCall[1]),
                          Ev("end", dd.traceCall[1]),
                          Ev("start", dd.traceCall[2]),
                          Ev("throw", dd.traceCall[2])>>
            /\ dd.result = Err(dd.traceCall[2])

\* C3: a dispatch goes to the window's own table whenever that table has a
\* matching route and to the global table only when it has none; the only
\* handler it ever calls is the one of the route it resolved to.
C3_WindowTableFirst ==
    /\ [][\A d \in Dispatches :
            ApplyStep(d) =>
              LET dd   == disp'[d]
                  own  == HasMatch(routes[dd.win], dd.route, dd.method)
                  glob == HasMatch(routes[Global], dd.route, dd.method)
              IN  /\ own => dd.table = dd.win
                  /\ (~own /\ glob) => dd.table = Global
                  /\ dd.table = Global => ~own
                  /\ dd.table # "-" =>
                       /\ dd.lastCallback.scope = dd.table
                       /\ dd.lastCallback.method = dd.method]_vars
    /\ [](\A d \in Dispatches :
            \A i \in 1..Len(disp[d].log) :
                disp[d].log[i].c.kind = "h" =>
                    disp[d].log[i].c = disp[d].lastCallback)

C3_Witness ==
    \E d \in Dispatches :
        LET dd == disp[d]
        IN  /\ dd.pc = "done"
            /\ dd.table = dd.win
            /\ dd.result = Ret(H(dd.win, dd.method, 1))
            /\ HasMatch(routes[Global], dd.route, dd.method)
            /\ dd.log = <<Ev("start", H(dd.win, dd.method, 1)),
                          Ev("end", H(dd.win, dd.method, 1))>>

\* C4: the middleware called in a dispatch are those of the table the route
\* was resolved in: never a global middleware for a window route, never a
\* window middleware for a global route.
C4_MiddlewareScopes ==
    \A d \in Dispatches :
        /\ \A i \in 1..Len(disp[d].log) :
              disp[d].log[i].c.kind = "mw" =>
                  disp[d].log[i].c.scope = disp[d].table
        /\ \A i \in 1..Len(disp[d].traceCall) :
              disp[d].traceCall[i].scope = disp[d].table

C4_Witness ==
    \E d \in Dispatches :
        LET dd == disp[d]
        IN  /\ dd.pc = "done"
            /\ dd.table = Global
            /\ dd.win # Global
            /\ middleware[dd.win] # <<>>
            /\ Len(dd.traceCall) = 3
            /\ dd.log = SequentialLog(dd.traceCall)
            /\ dd.result = Ret(dd.lastCallback)

\* C5: when neither the window's table nor the global table has a matching
\* route, the dispatch returns undefined, raises nothing and calls nothing.
C5_NoMatchIsUndefined ==
    /\ [][\A d \in Dispatches :
            ApplyStep(d) =>
              LET dd == disp'[d]
              IN  (/\ ~HasMatch(routes[dd.win], dd.route, dd.method)
                   /\ ~HasMatch(routes[Global], dd.route, dd.method)) =>
                     /\ dd.pc = "done"
                     /\ dd.table = "-"
                     /\ dd.result = Undefined
                     /\ dd.log = <<>>]_vars
    /\ [](\A d \in Dispatches :
            disp[d].table = "-" =>
                /\ disp[d].log = <<>>
                /\ disp[d].pc \in {"idle", "done"}
                /\ errorWrapper(disp[d].result) = Undefined)

C5_Witness ==
    \E d \in Dispatches :
        LET dd == disp[d]
        IN  /\ dd.pc = "done"
            /\ dd.table = "-"
            /\ routes[dd.win][dd.method] # <<>>
            /\ routes[Global][dd.method] # <<>>
            /\ middleware[Global] # <<>>
            /\ ~HasMatch(routes[dd.win], dd.route, dd.method)
            /\ ~HasMatch(routes[Global], dd.route, dd.method)

\* C10: in a dispatch in which no middleware responds or throws, the calls
\* are m1, ..., mn, h in this order, each started after the one before it
\* has completed, and the result is what h returned.
C10_SequentialOrder ==
    \A d \in Dispatches :
        LET dd == disp[d]
        IN  (dd.chained /\ ~HasEv(dd, "respond") /\ ~HasEv(dd, "throw")) =>
              /\ IsPrefix(dd.log, SequentialLog(dd.traceCall))
              /\ dd.pc = "done" =>
                   /\ dd.log = SequentialLog(dd.traceCall)
                   /\ dd.result = Ret(dd.lastCallback)

\* The part of C10 that holds: the order and the result when every call is
\* made by the loop.
C10_SequentialWhenLoopOnly ==
    \A d \in Dispatches :
        LET dd == disp[d]
        IN  (/\ dd.chained
             /\ LoopOnly(dd)
             /\ ~HasEv(dd, "respond")
             /\ ~HasEv(dd, "throw")) =>
              /\ IsPrefix(dd.log, SequentialLog(dd.traceCall))
              /\ dd.pc = "done" =>
                   /\ dd.log = SequentialLog(dd.traceCall)
                   /\ dd.result = Ret(dd.lastCallback)

(***************************************************************************)
(* Properties of registration.                                             *)
(***************************************************************************)
PathsOf(m) == {routes[Global][m][i].path : i \in 1..Len(routes[Global][m])}

Other(m) == IF m = "get" THEN "post" ELSE "get"

Registers(m, r) == IF m = "get" THEN get(Global, r) ELSE post(Global, r)

\* the registration of r under m went through: r is the new last route
Registered(m, r) ==
    /\ lastError' = "none"
    /\ routes' = [routes EXCEPT ![Global][m] =
                     Append(@, [path |-> r,
                                callback |-> H(Global, m, Len(@) + 1)])]

\* the registration failed with the duplicate-route error, nothing changed
Rejected == lastError' = "exists" /\ routes' = routes /\ hasRoutes' = hasRoutes

\* C6: registering a pattern that is already registered under the same
\* method of the table fails with the duplicate-route error and changes no
\* route list; a pattern registered under the other method only does not
\* stand in the way.
C6_DuplicateRejected ==
    [][\A m \in Methods, r \in RoutesReg :
          /\ (Registers(m, r) /\ r \in PathsOf(m)) => Rejected
          /\ (Registers(m, r) /\ PathsOf(m) = {} /\ r \in PathsOf(Other(m)))
                => Registered(m, r)]_vars

C6_Witness ==
    /\ lastError = "exists"
    /\ routes[Global]["get"] = <<[path |-> S_ping,
                                  callback |-> H(Global, "get", 1)]>>
    /\ routes[Global]["post"] = <<[path |-> S_ping,
                                   callback |-> H(Global, "post", 1)]>>

\* C7: under one method, /ping registered after /p* fails with the
\* duplicate-route error, while /ping and /pi* do not conflict in either
\* order.
C7_WildcardSuffixConflict ==
    [][\A m \in Methods :
          /\ (Registers(m, S_ping) /\ S_pstar \in PathsOf(m)) => Rejected
          /\ (Registers(m, S_ping) /\ PathsOf(m) = {S_pistar})
                => Registered(m, S_ping)
          /\ (Registers(m, S_pistar) /\ PathsOf(m) = {S_ping})
                => Registered(m, S_pistar)]_vars

\* What the check does with wildcards: a literal path collides with an
\* earlier pattern whose last segment is '*', and '*' inside a segment is a
\* literal character.
C7_WildcardSegmentConflict ==
    [][\A m \in Methods :
          /\ (Registers(m, S_p_ing) /\ S_p_star \in PathsOf(m)) => Rejected
          /\ (Registers(m, S_ping) /\ PathsOf(m) \subseteq {S_pstar, S_pistar})
                => Registered(m, S_ping)]_vars

(***************************************************************************)
(* Properties of path matching.                                            *)
(***************************************************************************)
\* the match of a pattern and a path, segment by segment, in closed form
ExpectedMatch(pattern, path) ==
    LET P == Split(pattern, "/")
        C == Split(path, "/")
        wild == P[Len(P)] = WildSeg
        n == IF wild THEN Len(P) - 1 ELSE Len(P)
        fits == IF wild THEN Len(C) >= n ELSE Len(C) = n
        names == {i \in 1..n : IsParamSeg(P[i])}
        Name(i) == SubSeq(P[i], 2, Len(P[i]))
        ok == fits /\ \A i \in 1..n : IsParamSeg(P[i]) \/ P[i] = C[i]
    IN  [ok |-> ok,
         params |->
            IF ok
            THEN [nm \in {Name(i) : i \in names} |->
                    C[CHOOSE i \in names :
                        /\ Name(i) = nm
                        /\ \A j \in names : Name(j) = nm => j <= i]]
            ELSE EmptyMap]

\* C8: both strings are split on '/'; a ':name' segment binds the path's
\* segment under name, a literal segment must be equal, the segment counts
\* must be equal unless the pattern ends in a '*' segment, which matches
\* whatever follows the segments before it.
C8_PathMatching ==
    output.set =>
        LET e == ExpectedMatch(input.pattern, input.path)
        IN  /\ output.res.found = e.ok
            /\ output.res.params = e.params
            /\ (input.pattern = S_user_id /\ input.path = S_user_42) =>
                  /\ output.res.found
                  /\ output.res.params = [nm \in {<<"i", "d">>} |-> S_42]
            /\ (input.pattern = S_user_id /\ input.path = S_user_42_extra) =>
                  ~output.res.found
            /\ (input.pattern = S_user_star /\ input.path = S_user_42_extra) =>
                  output.res.found

C8_Witness ==
    /\ output.set
    /\ output.res.found
    /\ input.pattern = S_user_star
    /\ input.path = S_user_42_extra

(***************************************************************************)
(* Properties of query parsing.                                            *)
(***************************************************************************)
CountOf(s, ch) == Cardinality({i \in 1..Len(s) : s[i] = ch})

FirstOf(s, ch) ==
    IF CountOf(s, ch) = 0 THEN Len(s) + 1
    ELSE CHOOSE i \in 1..Len(s) : s[i] = ch /\ \A j \in 1..(i - 1) : s[j] # ch

\* the map of the entries of text that hold exactly one '='; of two entries
\* with the same key the later one stands
PairsOf(text) ==
    LET entries == Split(text, "&")
        good == {i \in 1..Len(entries) : CountOf(entries[i], "=") = 1}
        Key(i) == SubSeq(entries[i], 1, FirstOf(entries[i], "=") - 1)
        Val(i) == SubSeq(entries[i], FirstOf(entries[i], "=") + 1,
                         Len(entries[i]))
    IN  [key \in {Key(i) : i \in good} |->
            Val(CHOOSE i \in good :
                    Key(i) = key /\ \A j \in good : Key(j) = key => j <= i)]

\* C9: the route is the text before the first '?', and the query holds
\* exactly the key=value pairs of the '&'-separated entries after the '?'
\* that contain exactly one '='.
C9_QueryParsing ==
    output.set =>
        LET q == FirstOf(input, "?")
        IN  /\ output.res.route = SubSeq(input, 1, q - 1)
            /\ output.res.query = PairsOf(SubSeq(input, q + 1, Len(input)))

\* What the parser does: the query is read from the text between the first
\* and the second '?' only.
C9_QueryUpToSecondMark ==
    output.set =>
        LET q == FirstOf(input, "?")
            rest == SubSeq(input, q + 1, Len(input))
            q2 == FirstOf(rest, "?")
        IN  /\ output.res.route = SubSeq(input, 1, q - 1)
            /\ output.res.query = PairsOf(SubSeq(rest, 1, q2 - 1))

(***************************************************************************)
(* Properties of dispatches in flight together.                            *)
(***************************************************************************)
\* C11: the request of a dispatch reflects its own dispatch only:
\* req.params.getWindow(), called by a callable after it has suspended,
\* returns the window that issued the dispatch, whatever other dispatch was
\* resolved in the meantime.
C11_RequestIsExclusive ==
    \A d \in DOMAIN disp :
        disp[d].seen # "-" => disp[d].seen = disp[d].win

\* What the accessor does return: the window of the dispatch resolved last,
\* which is the dispatch's own window as long as no other one was resolved.
C11_OwnWindowWhenAlone ==
    \A d \in DOMAIN disp :
        (/\ disp[d].seen # "-"
         /\ \A e \in DOMAIN disp \ {d} : disp[e].table = "-") =>
            disp[d].seen = disp[d].win

\* the calls of the dispatch that were started and have not settled
Pending(dd) ==
    {c \in {dd.log[i].c : i \in 1..Len(dd.log)} :
        Cardinality({i \in 1..Len(dd.log) :
                        dd.log[i] = Ev("start", c)})
          > Cardinality({i \in 1..Len(dd.log) :
                        dd.log[i].c = c /\ dd.log[i].ev \in {"end", "throw"}})}

\* the next step of the started pipeline of dispatch e can be taken
CanStep(e) ==
    /\ disp[e].pc = "loop" => ENABLED LoopStep(e)
    /\ disp[e].pc = "await" => ENABLED Settle(e)

\* no step of the pipeline of dispatch d can be taken any more
Stuck(d) ==
    /\ ~ENABLED LoopStep(d)
    /\ ~ENABLED Settle(d)

\* C12: a dispatch one of whose calls never settles never completes, and it
\* does not keep any other dispatch, started before or after it, from taking
\* the steps of its pipeline and completing.
C12_HungDoesNotBlock ==
    \A d \in DOMAIN disp :
        /\ disp[d].pc = "done" => Pending(disp[d]) = {}
        /\ disp[d].pc = "hung" =>
              /\ Pending(disp[d]) # {}
              /\ Stuck(d)
              /\ \A e \in DOMAIN disp \ {d} : CanStep(e)

C12_Witness ==
    /\ disp["d1"].pc = "hung"
    /\ disp["d2"].pc = "done"
    /\ disp["d2"].chained
    /\ Has(disp["d2"], "end", disp["d2"].lastCallback)

(***************************************************************************)
(* JavaScript numbers of the geometry code: integers and NaN, and the      *)
(* fractional results of translateString, kept as a quotient num / den     *)
(* until parseInt truncates them.                                          *)
(***************************************************************************)
NaN == [nan |-> TRUE, v |-> 0]
Num(v) == [nan |-> FALSE, v |-> v]

Add(a, b) == IF a.nan \/ b.nan THEN NaN ELSE Num(a.v + b.v)
Sub(a, b) == IF a.nan \/ b.nan THEN NaN ELSE Num(a.v - b.v)
\* a > b, false as soon as one side is NaN
Gt(a, b) == ~a.nan /\ ~b.nan /\ a.v > b.v

Abs(n) == IF n < 0 THEN -n ELSE n

Digits == {"0", "1", "2", "3", "4", "5", "6", "7", "8", "9"}
DigitVal(c) ==
    CASE c = "0" -> 0 [] c = "1" -> 1 [] c = "2" -> 2 [] c = "3" -> 3
      [] c = "4" -> 4 [] c = "5" -> 5 [] c = "6" -> 6 [] c = "7" -> 7
      [] c = "8" -> 8 [] c = "9" -> 9

RECURSIVE ToNat(_)
ToNat(ds) ==
    IF ds = <<>> THEN 0
    ELSE 10 * ToNat(SubSeq(ds, 1, Len(ds) - 1)) + DigitVal(ds[Len(ds)])

RECURSIVE Pow10(_)
Pow10(n) == IF n = 0 THEN 1 ELSE 10 * Pow10(n - 1)

\* the longest prefix of s made of digits
RECURSIVE DigitPrefix(_)
DigitPrefix(s) ==
    IF s # <<>> /\ Head(s) \in Digits
    THEN <<Head(s)>> \o DigitPrefix(Tail(s)) ELSE <<>>

NoFloat == [nan |-> TRUE, num |-> 0, den |-> 1, short |-> FALSE]
Float(num, den, short) ==
    [nan |-> FALSE, num |-> num, den |-> den, short |-> short]

\* parseFloat: an optional sign, digits, and a fraction after a '.'; NaN when
\* the string starts with none of these
parseFloat(str) ==
    LET neg  == str # <<>> /\ Head(str) = "-"
        body == IF str # <<>> /\ Head(str) \in {"-", "+"} THEN Tail(str) ELSE str
        ip   == DigitPrefix(body)
        rest == SubSeq(body, Len(ip) + 1, Len(body))
        fp   == IF rest # <<>> /\ Head(rest) = "." THEN DigitPrefix(Tail(rest))
                ELSE <<>>
        mag  == ToNat(ip) * Pow10(Len(fp)) + ToNat(fp)
    IN  IF ip = <<>> /\ fp = <<>> THEN NoFloat
        ELSE Float(IF neg THEN -mag ELSE mag, Pow10(Len(fp)), FALSE)

\* the products origin * (percent / 100) of the modelled inputs, as
\* <<|origin|, num, den>> with percent = num / den, that IEEE-754 double arithmetic leaves just short
\* of their exact integer value: 100 * (29 / 100) is 28.999999999999996
ShortProducts == {<<100, 29, 1>>, <<200, 29, 1>>, <<400, 29, 1>>}

\* parseInt of a number: its integer part, towards zero
parseInt(f) ==
    IF f.nan THEN NaN
    ELSE LET q == Abs(f.num) \div f.den
             m == IF f.short /\ q > 0 /\ Abs(f.num) % f.den = 0 THEN q - 1
                  ELSE q
         IN  Num(IF f.num < 0 THEN -m ELSE m)

(***************************************************************************)
(* DesktopClass.#getWindowPosition.  A property of the placement spec is   *)
(* an integer or a string; resolution turns every string into a number.    *)
(***************************************************************************)
IntV(n) == [t |-> "int", v |-> n, s |-> <<>>]
StrV(str) == [t |-> "str", v |-> 0, s |-> str]
NaNV == [t |-> "nan", v |-> 0, s |-> <<>>]

NumOf(val) == IF val.t = "int" THEN Num(val.v) ELSE NaN
FromNum(n) == IF n.nan THEN NaNV ELSE IntV(n.v)

S_close == <<"c", "l", "o", "s", "e">>
S_center == <<"c", "e", "n", "t", "e", "r">>
S_min == <<"m", "i", "n">>
S_max == <<"m", "a", "x">>
S_full == <<"f", "u", "l", "l">>
S_50pc == <<"5", "0", "%">>
S_29pc == <<"2", "9", "%">>
S_12_5pc == <<"1", "2", ".", "5", "%">>
S_400 == <<"4", "0", "0">>
S_100 == <<"1", "0", "0">>

\* the keys of translateString's positions object
Positions == {S_center, S_min, S_max}

\* str.match(/[0-9]+(\.[0-9]{1,2})?%$/): the pattern is not anchored at its
\* start, so it matches every string ending with a digit and '%'
IsPercent(str) ==
    /\ Len(str) >= 2
    /\ str[Len(str)] = "%"
    /\ str[Len(str) - 1] \in Digits

\* translateString accepting the symbolic literals for sizes too
translateString_NoReject(str, originValue, isSize) ==
    IF IsPercent(str)
    THEN LET percent == parseFloat(str)
         IN  [threw |-> FALSE,
              val |-> IF percent.nan \/ originValue.nan THEN NoFloat
                      ELSE Float(originValue.v * percent.num,
                                 percent.den * 100,
                                 <<Abs(originValue.v), percent.num,
                                   percent.den>> \in ShortProducts)]
    ELSE IF str \in Positions
    THEN [threw |-> FALSE,
          val |-> IF str = S_min THEN Float(0, 1, FALSE)
                  ELSE IF originValue.nan THEN NoFloat
                  ELSE IF str = S_center THEN Float(originValue.v, 2, FALSE)
                  ELSE Float(originValue.v, 1, FALSE)]
    ELSE [threw |-> FALSE,
          val |-> IF originValue.nan THEN NoFloat
                  ELSE Float(originValue.v, 1, FALSE)]

translateString(str, originValue, isSize) ==
    IF IsPercent(str)
    THEN LET percent == parseFloat(str)
         IN  [threw |-> FALSE,
              val |-> IF percent.nan \/ originValue.nan THEN NoFloat
                      ELSE Float(originValue.v * percent.num,
                                 percent.den * 100,
                                 <<Abs(originValue.v), percent.num,
                                   percent.den>> \in ShortProducts)]
    ELSE IF str \in Positions
    THEN IF isSize THEN [threw |-> TRUE, val |-> NoFloat]
         ELSE [threw |-> FALSE,
               val |-> IF str = S_min THEN Float(0, 1, FALSE)
                       ELSE IF originValue.nan THEN NoFloat
                       ELSE IF str = S_center
                       THEN Float(originValue.v, 2, FALSE)
                       ELSE Float(originValue.v, 1, FALSE)]
    ELSE [threw |-> FALSE,
          val |-> IF originValue.nan THEN NoFloat
                  ELSE Float(originValue.v, 1, FALSE)]

\* applyProp: a string value is replaced by parseInt of its translation
applyProp(value, originValue, isSize) ==
    IF value.t = "str"
    THEN LET r == translateString(value.s, originValue, isSize)
         IN  [threw |-> r.threw,
              val |-> IF r.threw THEN value ELSE FromNum(parseInt(r.val))]
    ELSE [threw |-> FALSE, val |-> value]

\* the screen of "Limit size by padding" is electron's screen module, which
\* has no width and no height: undefined, NaN in arithmetic
screenWidth == NaN
screenHeight == NaN

getWindowPosition(specs, mainScreen) ==
    LET padding == specs.padding
        w  == applyProp(specs.width, Num(mainScreen.width), TRUE)
        h  == applyProp(specs.height, Num(mainScreen.height), TRUE)
        x  == applyProp(specs.x,
                        Sub(Num(mainScreen.width), NumOf(w.val)), FALSE)
        y  == applyProp(specs.y,
                        Sub(Num(mainScreen.height), NumOf(h.val)), FALSE)
        x2 == Add(NumOf(x.val), Num(mainScreen.x))
        y2 == Add(NumOf(y.val), Num(mainScreen.y))
        bw == Sub(screenWidth, Num(padding * 2))
        bh == Sub(screenHeight, Num(padding * 2))
        cw == Gt(NumOf(w.val), bw)
        ch == Gt(NumOf(h.val), bh)
    IN  IF w.threw \/ h.threw
        THEN [threw |-> TRUE, specs |-> specs]
        ELSE [threw |-> FALSE,
              specs |-> [width   |-> IF cw THEN FromNum(bw) ELSE w.val,
                         height  |-> IF ch THEN FromNum(bh) ELSE h.val,
                         x       |-> IF cw THEN IntV(padding) ELSE FromNum(x2),
                         y       |-> IF ch THEN IntV(padding) ELSE FromNum(y2),
                         padding |-> padding]]

(***************************************************************************)
(* DesktopClass.#getScreenName.  The preference is undefined, a string or  *)
(* a list of strings; display ids and preferences are strings of           *)
(* characters, so that using a list as a property key is computed.         *)
(***************************************************************************)
Id_A == <<"#", "1", "-", "A">>
Id_B == <<"#", "2", "-", "B">>
Id_C == <<"#", "3", "-", "C">>
S_left == <<"l", "e", "f", "t">>
S_right == <<"r", "i", "g", "h", "t">>
S_primary == <<"p", "r", "i", "m", "a", "r", "y">>
S_hdmi == <<"H", "D", "M", "I">>
S_undefined == <<"u", "n", "d", "e", "f", "i", "n", "e", "d">>

NoPref == [t |-> "undef", s |-> <<>>, l |-> <<>>]
StrP(str) == [t |-> "str", s |-> str, l |-> <<>>]
ListP(list) == [t |-> "list", s |-> <<>>, l |-> list]

Range(seq) == {seq[i] : i \in 1..Len(seq)}

RECURSIVE Reverse(_)
Reverse(seq) ==
    IF seq = <<>> THEN <<>> ELSE Reverse(Tail(seq)) \o <<Head(seq)>>

\* Array.prototype.join(","): a list used as a property key
RECURSIVE Join(_)
Join(list) ==
    IF list = <<>> THEN <<>>
    ELSE IF Len(list) = 1 THEN list[1]
    ELSE list[1] \o <<",">> \o Join(Tail(list))

\* the property key this.screens[ screen ] looks up
Key(pref) ==
    IF pref.t = "str" THEN pref.s
    ELSE IF pref.t = "list" THEN Join(pref.l)
    ELSE S_undefined

\* #detectScreens: the display flagged primary, else the first key
primaryOf(screensOrder, primaryId) ==
    IF primaryId \in Range(screensOrder) THEN primaryId ELSE screensOrder[1]

\* #getScreenName ignoring the named entries of a list
getScreenName_NoNames(screensOrder, primary, screen) ==
    LET IsDir(e) == e = S_left \/ e = S_right
        screensPrefs == IF screen.t = "list" THEN screen.l ELSE <<screen.s>>
        dirs  == SelectSeq(screensPrefs, IsDir)
        right == dirs # <<>> /\ dirs[1] = S_right
    IN  IF screen.t = "undef" \/ (screen.t = "str" /\ screen.s = <<>>)
           \/ (screen.t = "str" /\ screen.s = S_primary)
        THEN primary
        ELSE IF Key(screen) \in Range(screensOrder) THEN Key(screen)
        ELSE IF right THEN Reverse(screensOrder)[1] ELSE screensOrder[1]

\* #getScreenName always answering the first display
getScreenName_First(screensOrder, primary, screen) == screensOrder[1]

\* the value #getScreenName returns, as the key #getWindowPosition finds the
\* screen under
getScreenName(screensOrder, primary, screen) ==
    LET IsDir(e) == e = S_left \/ e = S_right
        IsName(e) == ~IsDir(e)
        screensPrefs == IF screen.t = "list" THEN screen.l ELSE <<screen.s>>
        dirs  == SelectSeq(screensPrefs, IsDir)
        right == dirs # <<>> /\ dirs[1] = S_right
        namesScreens == SelectSeq(screensPrefs, IsName)
        Named(e) == e \in Range(namesScreens)
        byName == SelectSeq(screensOrder, Named)
    IN  IF screen.t = "undef" \/ (screen.t = "str" /\ screen.s = <<>>)
           \/ (screen.t = "str" /\ screen.s = S_primary)
        THEN primary
        ELSE IF Key(screen) \in Range(screensOrder) THEN Key(screen)
        ELSE IF byName # <<>> THEN byName[1]
        ELSE IF right THEN Reverse(screensOrder)[1] ELSE screensOrder[1]

(***************************************************************************)
(* DesktopClass.createWindow: the defaults under the caller's spec, the    *)
(* display chosen by #getScreenName, the geometry resolved against it, and *)
(* the window kept in windowsStack.  input holds the detected displays in  *)
(* their order (ascending work-area x), the primary display's id and the   *)
(* arguments of the call.                                                  *)
(***************************************************************************)
defaultsWindow ==
    [width |-> IntV(800), height |-> IntV(600), x |-> StrV(S_center),
     y |-> StrV(S_center), padding |-> 20]

\* { ...this.defaults.window, ...winType } for a spec without a type
paramsOf(specsInfo) ==
    [k \in DOMAIN defaultsWindow |->
        IF k \in DOMAIN specsInfo THEN specsInfo[k] ELSE defaultsWindow[k]]

screensOrderOf(screens) == [i \in 1..Len(screens) |-> screens[i].id]

\* this.screens[ name ]
screenNamed(screens, name) ==
    screens[CHOOSE i \in 1..Len(screens) : screens[i].id = name]

\* what the k-th constructed window gets as id (lib/idGenerator.js): one id
\* per BrowserWindow, no two windows sharing one
idGenerator(k) == k

\* the callback createWindow registers: delete this.windowsStack[window.id]
RemoveFromStack(id) == [kind |-> "remove", owner |-> id, n |-> 0]

\* #failSafe letting every call through
failSafe_Open(hasInit, reverse) == "none"

\* #failSafe(reverse): the error it throws ("none": it returns)
failSafe(hasInit, reverse) ==
    IF ~hasInit /\ ~reverse THEN "Desktop must init first"
    ELSE IF reverse /\ hasInit
    THEN "This function should be laucnhed before init"
    ELSE "none"

\* createWindow(specsInfo) with input.specsInfo, on the displays of input
createWindowCall ==
    LET order == screensOrderOf(input.screens)
        primary == primaryOf(order, input.primaryId)
        params == paramsOf(input.specsInfo)
        screenName == getScreenName(order, primary, input.screen)
        r == getWindowPosition(params, screenNamed(input.screens, screenName))
        id == idGenerator(desk.created + 1)
    IN  IF failSafe(desk.hasInit, FALSE) # "none"
        THEN /\ lastError' = failSafe(desk.hasInit, FALSE)
             /\ UNCHANGED <<windowsStack, desk>>
        ELSE IF r.threw
        THEN /\ lastError' = "invalid"
             /\ UNCHANGED <<windowsStack, desk>>
        ELSE /\ lastError' = "none"
             /\ windowsStack' = Append(windowsStack,
                    [screen |-> screenName, specs |-> r.specs, id |-> id,
                     hooks |-> <<[name |-> S_close,
                                  cb |-> RemoveFromStack(id)]>>])
             /\ desk' = [desk EXCEPT !.created = desk.created + 1,
                                     !.open = desk.open \cup {id}]

createWindow ==
    /\ ~output.set
    /\ createWindowCall
    /\ output' = [set |-> TRUE]
    /\ UNCHANGED <<routes, hasRoutes, middleware, disp, input, getWindow,
                   settings, file, events>>

NextWindow == createWindow

(***************************************************************************)
(* The geometry model: two displays, a placement spec drawn from integers, *)
(* percentages, symbolic literals and other strings.                       *)
(***************************************************************************)
ScreenA == [id |-> Id_A, x |-> 100, y |-> 0, width |-> 1000, height |-> 800]
ScreenB == [id |-> Id_B, x |-> -800, y |-> 100, width |-> 800, height |-> 600]

WidthsG == {IntV(400), IntV(900), IntV(1200), StrV(S_50pc), StrV(S_400),
            StrV(S_full), StrV(S_center), StrV(S_min), StrV(S_max)}
HeightsG == {IntV(400), IntV(900), StrV(S_50pc), StrV(S_400), StrV(S_min)}
XsG == {StrV(S_min), StrV(S_center), StrV(S_max), StrV(S_29pc),
        StrV(S_12_5pc), IntV(10), StrV(S_100)}
YsG == {StrV(S_min), StrV(S_center), StrV(S_max), StrV(S_50pc), IntV(0),
        IntV(30)}
PaddingsG == {0, 20}

SpecsG ==
    [width : WidthsG, height : HeightsG, x : XsG, y : YsG,
     padding : PaddingsG]
    \cup {[width |-> IntV(1200)], [padding |-> 0, x |-> StrV(S_min)]}

InitGeom ==
    /\ routes = [s \in Scopes |-> [m \in Methods |-> <<>>]]
    /\ hasRoutes = [s \in Scopes |-> FALSE]
    /\ middleware = [s \in Scopes |-> <<>>]
    /\ lastError = "none"
    /\ disp = [d \in Dispatches |-> Idle]
    /\ input \in [screens : {<<ScreenB, ScreenA>>}, primaryId : {Id_A},
                  specsInfo : SpecsG, screen : {StrP(Id_A), StrP(Id_B)}]
    /\ output = NoOutput
    /\ getWindow = "-"
    /\ windowsStack = <<>>
    /\ InitedDesktop

SpecGeom == InitGeom /\ [][NextWindow]_vars

(***************************************************************************)
(* Properties of geometry resolution.  The expected values are computed    *)
(* from the placement spec in exact integer arithmetic.                    *)
(***************************************************************************)
\* createWindow was called and returned a window
Created == output.set /\ lastError = "none" /\ Len(windowsStack) = 1

TheParams == paramsOf(input.specsInfo)
TheScreen == screenNamed(input.screens, windowsStack[1].screen)
Resolved == windowsStack[1].specs

\* a / b truncated towards zero
TruncDiv(a, b) == IF a < 0 THEN -((-a) \div b) ELSE a \div b

IsSymbolic(val) == val.t = "str" /\ val.s \in Positions
IsPercentage(val) == val.t = "str" /\ IsPercent(val.s)
IsIntString(val) ==
    val.t = "str" /\ val.s # <<>> /\ \A i \in 1..Len(val.s) : val.s[i] \in Digits

\* p / 100 of the range, truncated
PercentOfRange(str, range) ==
    LET p == parseFloat(str) IN TruncDiv(range * p.num, p.den * 100)

\* the position the claim gives for val on a travel range
ExpectedOffset(val, range) ==
    IF val.t = "int" THEN val.v
    ELSE IF val.s = S_min THEN 0
    ELSE IF val.s = S_center THEN TruncDiv(range, 2)
    ELSE IF val.s = S_max THEN range
    ELSE PercentOfRange(val.s, range)

\* the size of an integer or a percentage of the display's dimension
ExpectedSize(val, dim) ==
    IF val.t = "int" THEN val.v ELSE PercentOfRange(val.s, dim)

InPositionDomain(val) ==
    val.t = "int" \/ IsSymbolic(val) \/ IsPercentage(val)

InSizeDomain(val) == val.t = "int" \/ IsPercentage(val)

\* the size leaves the padding free on both sides of the display
Fits(size, dim, padding) == size <= dim - 2 * padding

ExampleInput ==
    [screens |-> <<ScreenB, ScreenA>>, primaryId |-> Id_A,
     specsInfo |-> [width |-> StrV(S_50pc), height |-> IntV(400),
                    x |-> StrV(S_center), y |-> StrV(S_min), padding |-> 0],
     screen |-> StrP(Id_A)]

\* C13: with width and height resolved, x is min -> 0, center -> half the
\* travel range display.width - width, max -> the range, p% -> p/100 of the
\* range truncated, an integer -> itself, plus the display's origin x; y
\* likewise; x = max puts x + width at display.x + display.width; and the
\* example of the spec resolves to {width 500, height 400, x 350, y 0}.
C13_PositionResolution ==
    Created =>
        LET p == TheParams
            m == TheScreen
            r == Resolved
        IN  /\ (/\ InPositionDomain(p.x)
                /\ Fits(r.width.v, m.width, p.padding)) =>
                  /\ r.x.v = ExpectedOffset(p.x, m.width - r.width.v) + m.x
                  /\ p.x = StrV(S_max) => r.x.v + r.width.v = m.x + m.width
            /\ (/\ InPositionDomain(p.y)
                /\ Fits(r.height.v, m.height, p.padding)) =>
                  r.y.v = ExpectedOffset(p.y, m.height - r.height.v) + m.y
            /\ input = ExampleInput =>
                  r = [width |-> IntV(500), height |-> IntV(400),
                       x |-> IntV(350), y |-> IntV(0), padding |-> 0]

\* What holds of the position: it is the expected one, except that a
\* percentage whose exact product is an integer may come out one pixel
\* nearer to zero.
C13_PositionUpToRounding ==
    Created =>
        LET p == TheParams
            m == TheScreen
            r == Resolved
            ex == ExpectedOffset(p.x, m.width - r.width.v)
            ey == ExpectedOffset(p.y, m.height - r.height.v)
        IN  /\ InPositionDomain(p.x) =>
                  \/ r.x.v = ex + m.x
                  \/ /\ IsPercentage(p.x)
                     /\ Abs(r.x.v - m.x) = Abs(ex) - 1
            /\ InPositionDomain(p.y) => r.y.v = ey + m.y
            /\ input = ExampleInput =>
                  r = [width |-> IntV(500), height |-> IntV(400),
                       x |-> IntV(350), y |-> IntV(0), padding |-> 0]

\* C14: whenever the resolved width exceeds the display's width minus twice
\* the padding, the final width is display.width - 2 * padding and the
\* final x is padding; the same for height and y.
C14_PaddingClamp ==
    Created =>
        LET p == TheParams
            m == TheScreen
            r == Resolved
        IN  /\ (/\ InSizeDomain(p.width)
                /\ ~Fits(ExpectedSize(p.width, m.width), m.width, p.padding))
                  => /\ r.width = IntV(m.width - 2 * p.padding)
                     /\ r.x = IntV(p.padding)
            /\ (/\ InSizeDomain(p.height)
                /\ ~Fits(ExpectedSize(p.height, m.height), m.height,
                         p.padding))
                  => /\ r.height = IntV(m.height - 2 * p.padding)
                     /\ r.y = IntV(p.padding)

\* What the code does with a size that is too large: it keeps it.
C14_SizeIsNeverClamped ==
    Created =>
        LET p == TheParams
            m == TheScreen
            r == Resolved
        IN  /\ InSizeDomain(p.width) =>
                  r.width = IntV(ExpectedSize(p.width, m.width))
            /\ InSizeDomain(p.height) =>
                  r.height = IntV(ExpectedSize(p.height, m.height))

\* C15: the resolved rectangle lies inside the display's work area shrunk by
\* the padding on every side.
C15_InsidePaddedArea ==
    Created =>
        LET p == TheParams
            m == TheScreen
            r == Resolved
        IN  /\ m.x + p.padding <= r.x.v
            /\ r.x.v + r.width.v <= m.x + m.width - p.padding
            /\ m.y + p.padding <= r.y.v
            /\ r.y.v + r.height.v <= m.y + m.height - p.padding

\* C16: a width or height that is an integer or a string holding an integer
\* resolves to that number of pixels, and any other value that is neither a
\* percentage nor a symbolic literal is passed through unchanged, not
\* replaced by a dimension of the display.
C16_SizePassThrough ==
    Created =>
        LET p == TheParams
            m == TheScreen
            r == Resolved
            Kept(val, res, dim) ==
                /\ (val.t = "int" /\ Fits(val.v, dim, p.padding)) => res = val
                /\ (IsIntString(val) /\ Fits(ToNat(val.s), dim, p.padding))
                      => res = IntV(ToNat(val.s))
                /\ (/\ val.t = "str"
                    /\ ~IsIntString(val)
                    /\ ~IsPercentage(val)
                    /\ ~IsSymbolic(val)) => res = val
        IN  /\ Kept(p.width, r.width, m.width)
            /\ Kept(p.height, r.height, m.height)

\* What the code does with sizes: an integer is kept, and a string that is
\* neither a percentage nor a symbolic literal becomes the display's dimension.
C16_StringSizeIsDisplaySize ==
    Created =>
        LET p == TheParams
            m == TheScreen
            r == Resolved
            Does(val, res, dim) ==
                /\ val.t = "int" => res = val
                /\ (val.t = "str" /\ ~IsPercentage(val)) => res = IntV(dim)
        IN  /\ Does(p.width, r.width, m.width)
            /\ Does(p.height, r.height, m.height)

\* C17: a width or height given as center, min or max makes geometry
\* resolution fail and no window is created; the same literals are accepted
\* for x and y.
C17_SymbolicSizeRejected ==
    output.set =>
        LET p == TheParams
        IN  IF IsSymbolic(p.width) \/ IsSymbolic(p.height)
            THEN lastError = "invalid" /\ windowsStack = <<>>
            ELSE Created

C17_Witness ==
    /\ output.set
    /\ TheParams.width = StrV(S_center)
    /\ TheParams.x = StrV(S_center)
    /\ lastError = "invalid"
    /\ windowsStack = <<>>

(***************************************************************************)
(* The display selection model: one to three displays in their detected    *)
(* order, one of them primary, and a screen preference; the window is      *)
(* created with the default geometry.                                      *)
(***************************************************************************)
IdsS == {Id_A, Id_B, Id_C}

\* the orders of the detected displays: distinct ids
OrdersS ==
    UNION {{f \in [1..n -> IdsS] : \A i, j \in 1..n : i # j => f[i] # f[j]} :
              n \in 1..Cardinality(IdsS)}

\* the detected displays, side by side from left to right
ScreensS ==
    {[i \in 1..Len(ids) |-> [id |-> ids[i], x |-> (i - 1) * 1000, y |-> 0,
                             width |-> 1000, height |-> 800]] :
        ids \in OrdersS}

EntriesS == {S_left, S_right, Id_A, Id_B, S_hdmi}

PrefsS ==
    {NoPref, StrP(<<>>), StrP(S_primary), StrP(S_left), StrP(S_right),
     StrP(Id_A), StrP(Id_B), StrP(Id_C), StrP(S_hdmi)}
    \cup {ListP(l) : l \in UNION {[1..n -> EntriesS] : n \in 0..MaxPrefs}}

NoSpecs == [k \in {} |-> 0]

InitScreen ==
    /\ routes = [s \in Scopes |-> [m \in Methods |-> <<>>]]
    /\ hasRoutes = [s \in Scopes |-> FALSE]
    /\ middleware = [s \in Scopes |-> <<>>]
    /\ lastError = "none"
    /\ disp = [d \in Dispatches |-> Idle]
    /\ \E sc \in ScreensS, pr \in IdsS, pf \in PrefsS :
          /\ pr \in Range(screensOrderOf(sc))
          /\ input = [screens |-> sc, primaryId |-> pr, specsInfo |-> NoSpecs,
                      screen |-> pf]
    /\ output = NoOutput
    /\ getWindow = "-"
    /\ windowsStack = <<>>
    /\ InitedDesktop

SpecScreen == InitScreen /\ [][NextWindow]_vars

(***************************************************************************)
(* Properties of display selection.                                        *)
(***************************************************************************)
Order == screensOrderOf(input.screens)
Selected == windowsStack[1].screen
Pref == input.screen

\* the entries of the preference, a string being a list of one
Entries(pref) ==
    IF pref.t = "list" THEN Range(pref.l)
    ELSE IF pref.t = "str" THEN {pref.s} ELSE {}

\* the named entries of the preference that are ids of detected displays
NamedKnown(pref) == (Entries(pref) \ {S_left, S_right}) \cap Range(Order)

NoPreference(pref) == pref.t = "undef" \/ pref = StrP(<<>>)

\* C18: with no preference or the preference "primary" the selected display
\* is the designated primary display; with a string preference equal to a
\* known display id it is that display; displays [A,B,C] with primary B and
\* no preference select B.
C18_PrimaryAndNamed ==
    Created =>
        /\ (NoPreference(Pref) \/ Pref = StrP(S_primary)) =>
              Selected = input.primaryId
        /\ (Pref.t = "str" /\ Pref.s \in Range(Order)) => Selected = Pref.s
        /\ (/\ Order = <<Id_A, Id_B, Id_C>>
            /\ input.primaryId = Id_B
            /\ Pref = NoPref) => Selected = Id_B

C18_Witness ==
    /\ Created
    /\ Order = <<Id_A, Id_B, Id_C>>
    /\ input.primaryId = Id_B
    /\ Pref = NoPref
    /\ Selected = Id_B

\* C19: when no named entry of the preference matches a known display, the
\* selected display is the first of the iteration order, which is right to
\* left only if the preference contains "right" and not "left", and left to
\* right otherwise: for [A,B,C], "right" selects C, ["unknown","left"] selects
\* A and ["right","left"] selects A.
C19_DirectionFallback ==
    (/\ Created
     /\ ~NoPreference(Pref)
     /\ Pref # StrP(S_primary)
     /\ NamedKnown(Pref) = {}) =>
            Selected =
                IF S_right \in Entries(Pref) /\ S_left \notin Entries(Pref)
                THEN Order[Len(Order)] ELSE Order[1]

\* What the code does: the direction is the first "left"/"right" entry of
\* the preference.
C19_FirstDirectionWins ==
    (/\ Created
     /\ ~NoPreference(Pref)
     /\ Pref # StrP(S_primary)
     /\ NamedKnown(Pref) = {}) =>
            LET IsDir(e) == e = S_left \/ e = S_right
                dirs == SelectSeq(IF Pref.t = "list" THEN Pref.l
                                  ELSE <<Pref.s>>, IsDir)
            IN  Selected = IF dirs # <<>> /\ dirs[1] = S_right
                           THEN Order[Len(Order)] ELSE Order[1]

\* C20: when the preference is a list with at least one entry equal to a
\* known display id, the selected display is one of the named known
\* displays, whatever "left"/"right" entries the list holds and wherever.
C20_NamedPriority ==
    (Created /\ Pref.t = "list" /\ NamedKnown(Pref) # {}) =>
        Selected \in NamedKnown(Pref)

C20_Witness ==
    /\ Created
    /\ Order = <<Id_C, Id_B, Id_A>>
    /\ Pref = ListP(<<S_right, S_hdmi, Id_B>>)
    /\ Selected = Id_B

(***************************************************************************)
(* Properties of Window.use and of the calls a pipeline makes.             *)
(***************************************************************************)
\* C27: Window.use(middleware) appends the middleware to the window's own
\* chain, so that later dispatches of the window's routes run it, and
\* returns the window.
C27_WindowUseAppends ==
    [][\A w \in Windows :
          WindowUse(w) =>
              /\ Len(middleware'[w]) = Len(middleware[w]) + 1
              /\ lastError' = "none"]_vars

\* What Window.use does: it throws and the window's chain stays as it was.
C27_WindowUseThrows ==
    [][\A w \in Windows :
          WindowUse(w) =>
              /\ middleware'[w] = middleware[w]
              /\ lastError' = "TypeError"]_vars

\* how often callable c was called in the dispatch
Calls(dd, c) ==
    Cardinality({i \in 1..Len(dd.log) : dd.log[i] = Ev("start", c)})

\* C30: in every dispatch each middleware of the chain and the matched
\* handler is called at most once, whatever a middleware does with the next
\* callable it is handed, and exactly once in a dispatch that completes
\* without a respond call and without an exception.
C30_AtMostOnce ==
    \A d \in Dispatches :
        LET dd == disp[d]
        IN  dd.chained =>
            /\ \A i \in 1..Len(dd.traceCall) : Calls(dd, dd.traceCall[i]) <= 1
            /\ (/\ dd.pc = "done"
                /\ ~HasEv(dd, "respond")
                /\ ~HasEv(dd, "throw")) =>
                  \A i \in 1..Len(dd.traceCall) :
                      Calls(dd, dd.traceCall[i]) = 1

\* What holds: as long as no middleware calls the next callable itself, each
\* is called at most once, and exactly once in a dispatch that completes
\* without a respond call and without an exception.
C30_OnceWhenLoopOnly ==
    \A d \in Dispatches :
        LET dd == disp[d]
        IN  (dd.chained /\ LoopOnly(dd)) =>
            /\ \A i \in 1..Len(dd.traceCall) : Calls(dd, dd.traceCall[i]) <= 1
            /\ (/\ dd.pc = "done"
                /\ ~HasEv(dd, "respond")
                /\ ~HasEv(dd, "throw")) =>
                  \A i \in 1..Len(dd.traceCall) :
                      Calls(dd, dd.traceCall[i]) = 1

(***************************************************************************)
(* The overlap model: parameterized patterns that share concrete paths,    *)
(* registered on one table.                                                *)
(***************************************************************************)
S_user_name == <<"/">> \o S_user \o <<"/", ":", "n", "a", "m", "e">>
S_a_x == <<"/", "a", "/", ":", "x">>
S_y_b == <<"/", ":", "y", "/", "b">>

RoutesO == {S_user_id, S_user_name, S_a_x, S_y_b}

NextOverlap ==
    \/ \E r \in RoutesO : get(Global, r)
    \/ \E r \in RoutesO : post(Global, r)

SpecOverlap == Init /\ [][NextOverlap]_vars

\* C26: under one method, a second parameterized pattern that differs from a
\* registered one but shares a concrete path with it is registered without
\* the duplicate-route error: /user/:name after /user/:id, /:y/b after /a/:x.
C26_OverlapNotDetected ==
    [][\A m \in Methods :
          /\ (Registers(m, S_user_name) /\ PathsOf(m) = {S_user_id})
                => Registered(m, S_user_name)
          /\ (Registers(m, S_y_b) /\ PathsOf(m) = {S_a_x})
                => Registered(m, S_y_b)]_vars

\* C26 as throwErrorIfExists works: the new route string is matched as a path against
\* the registered patterns of the method, so the new pattern is rejected
\* exactly when one of them matches it (/user/:name after /user/:id is
\* rejected, ':name' being bound to id) and registered otherwise (/:y/b after
\* /a/:x, although both match /a/b).
C26_OverlapPartlyDetected ==
    [][\A m \in Methods, r \in RoutesO :
          Registers(m, r) =>
              IF \E p \in PathsOf(m) : ExpectedMatch(p, r).ok
              THEN Rejected ELSE Registered(m, r)]_vars

C26_Witness ==
    /\ lastError = "none"
    /\ routes[Global]["get"] =
          <<[path |-> S_a_x, callback |-> H(Global, "get", 1)],
            [path |-> S_y_b, callback |-> H(Global, "get", 2)]>>
    /\ routes[Global]["post"] =
          <<[path |-> S_user_id, callback |-> H(Global, "post", 1)]>>

(***************************************************************************)
(* APIClass.getRoute and the pipeline closure it returns, as two steps: a  *)
(* caller of getRoute holds the closure and invokes it later.  The closure *)
(* captured route, query, matchedRoute and the index i; it reads the       *)
(* route's callback and the middleware list when it is invoked.            *)
(***************************************************************************)
resolve(d, s, w, route, method) ==
    /\ disp[d].pc = "idle"
    /\ LET r    == getRoute(routes[s], route, method)
           call == [Idle EXCEPT !.win = w, !.route = route, !.method = method]
       IN  /\ disp' = [disp EXCEPT ![d] =
                 IF ~r.found
                 THEN [call EXCEPT !.pc = "done"]
                 ELSE [call EXCEPT !.pc = "resolved", !.table = s, !.i = r.i,
                          !.req = [url |-> r.route, method |-> Upper(method),
                                   params |-> r.params, query |-> r.query,
                                   pathname |-> route, body |-> "-"]]]
           /\ getWindow' = IF r.found THEN w ELSE getWindow
    /\ UNCHANGED <<routes, hasRoutes, middleware, lastError, input, output,
                   windowsStack, deskVars>>

start(d, values) ==
    /\ disp[d].pc = "resolved"
    /\ LET dd  == disp[d]
           req == [dd.req EXCEPT
                      !.body = IF dd.method = "post" THEN values ELSE "-"]
           cb  == routes[dd.table][dd.method][dd.i].callback
       IN  disp' = [disp EXCEPT ![d] =
             IF chainOf(dd.table) = <<>>
             THEN [dd EXCEPT !.pc = "await", !.req = req, !.lastCallback = cb,
                             !.log = <<Ev("start", cb)>>]
             ELSE [dd EXCEPT !.pc = "loop", !.req = req, !.lastCallback = cb,
                             !.chained = TRUE,
                             !.traceCall = chainOf(dd.table) \o <<cb>>]]
    /\ UNCHANGED <<routes, hasRoutes, middleware, lastError, input, output,
                   getWindow, windowsStack, deskVars>>

(***************************************************************************)
(* The late-registration model: routes and middleware registered on the    *)
(* global table before, between and after the resolving and the starting   *)
(* of dispatches of one path that both patterns match.                     *)
(***************************************************************************)
RoutesL == {S_a_x, S_y_b}

NextLate ==
    \/ \E r \in RoutesL : get(Global, r)
    \/ use(Global)
    \/ \E d \in Dispatches, w \in Windows : resolve(d, Global, w, S_a_b, "get")
    \/ \E d \in Dispatches : start(d, "payload")
    \/ \E d \in Dispatches : LoopStep(d)
    \/ \E d \in Dispatches : Settle(d)

SpecLate == Init /\ [][NextLate]_vars

\* the dispatch holds a pipeline that has started executing
Started(dd) == dd.pc \in {"loop", "await", "hung", "done"} /\ dd.table # "-"

\* the routes of the dispatch's method that match its path, by position
MatchingRoutes(dd) ==
    {j \in 1..Len(routes[dd.table][dd.method]) :
        ExpectedMatch(routes[dd.table][dd.method][j].path, dd.req.url).ok}

\* the middleware the started pipeline runs
ChainLen(dd) == IF dd.chained THEN Len(dd.traceCall) - 1 ELSE 0

\* C28: of several routes of one method and table that match the path, the
\* dispatch runs the handler of the one registered first and no other
\* route's handler, also when routes are registered between the resolving
\* and the execution of the pipeline; a dispatch that completes with no
\* respond and no exception has run it.
C28_FirstRegisteredHandler ==
    \A d \in Dispatches :
        LET dd == disp[d]
        IN  (dd.pc # "idle" /\ dd.table # "-") =>
              /\ MatchingRoutes(dd) # {}
              /\ \A j \in MatchingRoutes(dd) : dd.i <= j
              /\ dd.i \in MatchingRoutes(dd)
              /\ \A n \in 1..Len(dd.log) :
                    dd.log[n].c.kind = "h" =>
                        dd.log[n].c = H(dd.table, dd.method, dd.i)
              /\ Started(dd) => dd.lastCallback = H(dd.table, dd.method, dd.i)
              /\ (dd.pc = "done" /\ ~HasEv(dd, "respond") /\ ~HasEv(dd, "throw"))
                    => Has(dd, "start", H(dd.table, dd.method, dd.i))

C28_Witness ==
    \E d \in Dispatches :
        /\ disp[d].pc = "done"
        /\ disp[d].table = Global
        /\ Len(routes[Global]["get"]) = 2
        /\ Cardinality(MatchingRoutes(disp[d])) = 2
        /\ routes[Global]["get"][1].path = S_y_b
        /\ Has(disp[d], "end", H(Global, "get", 1))
        /\ disp[d].result = Ret(H(Global, "get", 1))

\* C29: the middleware chain of a dispatch is the scope's list at the moment
\* its pipeline starts executing, also when the dispatch was resolved
\* earlier; it never changes afterwards, a middleware registered later is
\* not invoked in the dispatch, and a dispatch that completes with no
\* respond and no exception has invoked every middleware of its chain.
C29_ChainFixedAtStart ==
    [][\A d \in Dispatches :
          LET dd == disp[d]
              de == disp'[d]
          IN  /\ (dd.pc = "resolved" /\ de.pc # "resolved") =>
                    /\ ChainLen(de) = Len(middleware[dd.table])
                    /\ \A k \in 1..ChainLen(de) :
                          de.traceCall[k] = middleware[dd.table][k]
              /\ Started(dd) =>
                    /\ de.traceCall = dd.traceCall
                    /\ de.chained = dd.chained
              /\ Started(de) =>
                    /\ \A n \in 1..Len(de.log) :
                          de.log[n].c.kind = "mw" =>
                             \E k \in 1..ChainLen(de) :
                                de.log[n].c = de.traceCall[k]
                    /\ (de.pc = "done" /\ ~HasEv(de, "respond")
                             /\ ~HasEv(de, "throw")) =>
                          \A k \in 1..ChainLen(de) :
                             Has(de, "start", de.traceCall[k])]_vars

C29_Witness ==
    \E d \in Dispatches :
        /\ disp[d].pc = "done"
        /\ Len(middleware[Global]) = 2
        /\ ChainLen(disp[d]) = 1
        /\ Has(disp[d], "end", Mw(Global, 1))
        /\ Has(disp[d], "end", H(Global, "get", 1))
        /\ ~Has(disp[d], "start", Mw(Global, 2))

(***************************************************************************)
(* SettingsClass: the map #settings, its file, and set, update, get and    *)
(* delete.  A value is a JSON scalar; the file is the text JSON.stringify  *)
(* writes, one entry per property, and #init reads it back with            *)
(* JSON.parse.                                                             *)
(***************************************************************************)
BoolV(b) == [t |-> "bool", v |-> IF b THEN 1 ELSE 0, s |-> <<>>]
NullV == [t |-> "null", v |-> 0, s |-> <<>>]
UndefinedV == [t |-> "undefined", v |-> 0, s |-> <<>>]

S_true == <<"t", "r", "u", "e">>
S_false == <<"f", "a", "l", "s", "e">>
S_null == <<"n", "u", "l", "l">>

KeysS == {"a", "b"}
ValuesS == {StrV(<<>>), StrV(<<"1">>), StrV(S_true), IntV(0), IntV(1),
            BoolV(TRUE), BoolV(FALSE), NullV}

\* the value of a JavaScript expression used as a condition
Truthy(val) ==
    CASE val.t = "str" -> val.s # <<>>
      [] val.t = "int" -> val.v # 0
      [] val.t = "bool" -> val.v = 1
      [] OTHER -> FALSE

\* this.#settings[ prop ]
Lookup(map, prop) ==
    IF \E n \in 1..Len(map) : map[n].k = prop
    THEN map[CHOOSE n \in 1..Len(map) : map[n].k = prop].v
    ELSE UndefinedV

\* this.#settings[ prop ] = value
Assign(map, prop, value) ==
    IF \E n \in 1..Len(map) : map[n].k = prop
    THEN [n \in 1..Len(map) |->
             IF map[n].k = prop THEN [k |-> prop, v |-> value] ELSE map[n]]
    ELSE Append(map, [k |-> prop, v |-> value])

\* delete this.#settings[ prop ]
Remove(map, prop) == SelectSeq(map, LAMBDA e : e.k # prop)

RECURSIVE NatText(_)
NatText(n) ==
    LET d == CHOOSE c \in Digits : DigitVal(c) = n % 10
    IN  IF n < 10 THEN <<d>> ELSE NatText(n \div 10) \o <<d>>

\* JSON.stringify writing strings without their quotes
stringifyValue_Unquoted(val) ==
    CASE val.t = "str" -> val.s
      [] val.t = "int" -> NatText(val.v)
      [] val.t = "bool" -> IF val.v = 1 THEN S_true ELSE S_false
      [] OTHER -> S_null

\* JSON.stringify of one scalar
stringifyValue(val) ==
    CASE val.t = "str" -> <<"\"">> \o val.s \o <<"\"">>
      [] val.t = "int" -> NatText(val.v)
      [] val.t = "bool" -> IF val.v = 1 THEN S_true ELSE S_false
      [] OTHER -> S_null

\* JSON.parse of one scalar
parseValue(text) ==
    IF text # <<>> /\ Head(text) = "\""
    THEN StrV(SubSeq(text, 2, Len(text) - 1))
    ELSE IF text = S_true THEN BoolV(TRUE)
    ELSE IF text = S_false THEN BoolV(FALSE)
    ELSE IF text = S_null THEN NullV
    ELSE IntV(ToNat(text))

\* JSON.stringify(this.#settings, null, 4), property by property
stringify(map) ==
    [n \in 1..Len(map) |-> [k |-> map[n].k, text |-> stringifyValue(map[n].v)]]

\* JSON.parse(fs.readFileSync(path).toString())
parse(text) ==
    [n \in 1..Len(text) |-> [k |-> text[n].k, v |-> parseValue(text[n].text)]]

\* #saveFile: the file after fs.writeFileSync
saveFile(map) == [exists |-> TRUE, text |-> stringify(map)]

Returned(op, prop, val, map) ==
    [set |-> TRUE, op |-> op, k |-> prop, val |-> val, map |-> map]

SettingsSet(prop, value, returnNewSettings) ==
    /\ IF Truthy(Lookup(settings, prop)) /\ Lookup(settings, prop) = value
       THEN /\ UNCHANGED <<settings, file>>
            /\ output' = Returned("set", prop, UndefinedV, <<>>)
       ELSE /\ settings' = Assign(settings, prop, value)
            /\ file' = saveFile(settings')
            /\ output' = Returned("set", prop, UndefinedV,
                            IF returnNewSettings THEN settings' ELSE <<>>)
    /\ UNCHANGED <<routes, hasRoutes, middleware, lastError, disp, input,
                   getWindow, windowsStack, desk, events>>

SettingsUpdate(prop, value, returnNewSettings) ==
    /\ IF Lookup(settings, prop) = UndefinedV
       THEN /\ UNCHANGED <<settings, file>>
            /\ output' = Returned("update", prop,
                            [t |-> "Error", v |-> 0, s |-> <<>>], <<>>)
       ELSE IF Truthy(Lookup(settings, prop)) /\ Lookup(settings, prop) = value
       THEN /\ UNCHANGED <<settings, file>>
            /\ output' = Returned("update", prop, UndefinedV, <<>>)
       ELSE /\ settings' = Assign(settings, prop, value)
            /\ file' = saveFile(settings')
            /\ output' = Returned("update", prop, UndefinedV,
                            IF returnNewSettings THEN settings' ELSE <<>>)
    /\ UNCHANGED <<routes, hasRoutes, middleware, lastError, disp, input,
                   getWindow, windowsStack, desk, events>>

SettingsGet(prop) ==
    /\ output' = Returned("get", prop, Lookup(settings, prop), <<>>)
    /\ UNCHANGED <<routes, hasRoutes, middleware, lastError, disp, input,
                   getWindow, windowsStack, deskVars>>

SettingsDelete(prop) ==
    /\ IF Lookup(settings, prop) = UndefinedV
       THEN UNCHANGED <<settings, file>>
       ELSE /\ settings' = Remove(settings, prop)
            /\ file' = saveFile(settings')
    /\ output' = Returned("delete", prop, UndefinedV, <<>>)
    /\ UNCHANGED <<routes, hasRoutes, middleware, lastError, disp, input,
                   getWindow, windowsStack, desk, events>>

\* the maps a settings file of an earlier run can hold
StoredS ==
    {<<>>} \cup {<<[k |-> k, v |-> v]>> : k \in KeysS, v \in {IntV(0), StrV(<<"1">>)}}

\* the constructor: #init reads the file when there is one
InitSettings ==
    /\ routes = [s \in Scopes |-> [m \in Methods |-> <<>>]]
    /\ hasRoutes = [s \in Scopes |-> FALSE]
    /\ middleware = [s \in Scopes |-> <<>>]
    /\ lastError = "none"
    /\ disp = [d \in Dispatches |-> Idle]
    /\ input = NoInput
    /\ output = NoOutput
    /\ getWindow = "-"
    /\ windowsStack = <<>>
    /\ desk = NewDesktop
    /\ events = NoEvents
    /\ \/ file = NoFile /\ settings = <<>>
       \/ \E m \in StoredS : file = saveFile(m) /\ settings = parse(file.text)

NextSettings ==
    \/ \E k \in KeysS, v \in ValuesS, r \in BOOLEAN : SettingsSet(k, v, r)
    \/ \E k \in KeysS, v \in ValuesS, r \in BOOLEAN : SettingsUpdate(k, v, r)
    \/ \E k \in KeysS : SettingsGet(k)
    \/ \E k \in KeysS : SettingsDelete(k)

SpecSettings == InitSettings /\ [][NextSettings]_vars

\* C21: after every set, update or delete the file, once written, holds
\* exactly the map in memory (read back, it is that map); every change of the
\* map is followed by a rewrite of the whole file; and after set(k, v) get(k)
\* is v.
C21_FileHoldsSettings ==
    [][/\ file'.exists => parse(file'.text) = settings'
       /\ settings' # settings => file' = saveFile(settings')
       /\ ~file'.exists => settings' = <<>>
       /\ \A k \in KeysS, v \in ValuesS, r \in BOOLEAN :
             SettingsSet(k, v, r) => Lookup(settings', k) = v
       /\ \A k \in KeysS :
             SettingsGet(k) => output'.val = Lookup(settings, k)]_vars

C21_Witness ==
    /\ file.exists
    /\ Len(settings) = 2
    /\ Lookup(settings, "b") = IntV(0)
    /\ Lookup(settings, "a") = StrV(S_true)
    /\ parse(file.text) = settings
    /\ output.set /\ output.op = "get" /\ output.k = "a"
    /\ output.val = StrV(S_true)

(***************************************************************************)
(* DesktopClass: mode, protocol, init, the window registry and the events. *)
(* init is three steps, one per await.  A window is closed by its user;    *)
(* when the last one closes the app emits 'window-all-closed' to the       *)
(* handlers subscribed.  Once app.quit was called nothing runs any more.   *)
(***************************************************************************)
MaxWindows == 2
MaxHooks == 2

S_blank == <<" ">>
NamesE == {StrV(S_close), StrV(S_ping)}
BadNamesE == {StrV(<<>>), StrV(S_blank), IntV(7)}
ModesE == allowedModes \cup {"windowed"}
SchemesE == {"app", "media"}

RECURSIVE TrimStart(_)
TrimStart(str) ==
    IF str # <<>> /\ Head(str) = " " THEN TrimStart(Tail(str)) ELSE str

\* String.prototype.trim
trim(str) == Reverse(TrimStart(Reverse(TrimStart(str))))

\* typeof arguments[0] !== "string" || arguments[0].trim().length === 0
IsSignalName(name) == name.t = "str" /\ Len(trim(name.s)) # 0

\* a callback given to electrolite.on (owner 0) or to Window.on
Listener(owner, n) == [kind |-> "listener", owner |-> owner, n |-> n]

InStack(id) == \E n \in 1..Len(windowsStack) : windowsStack[n].id = id
WindowOf(id) ==
    windowsStack[CHOOSE n \in 1..Len(windowsStack) : windowsStack[n].id = id]

\* set mode(val)
setMode(val) ==
    /\ ~desk.quit
    /\ IF val \notin allowedModes
       THEN /\ lastError' = "Only keepAlive, exitOnAllClose modes allowed"
            /\ UNCHANGED desk
       ELSE /\ lastError' = "none"
            /\ desk' = [desk EXCEPT !.mode = val]
    /\ UNCHANGED <<routes, hasRoutes, middleware, disp, input, output,
                   getWindow, windowsStack, settings, file, events>>

protocol(name) ==
    /\ ~desk.quit
    /\ IF failSafe(desk.hasInit, TRUE) # "none"
       THEN /\ lastError' = failSafe(desk.hasInit, TRUE)
            /\ UNCHANGED desk
       ELSE IF name \in Range(desk.protocols)
       THEN /\ lastError' = "Protocol already exists"
            /\ UNCHANGED desk
       ELSE /\ lastError' = "none"
            /\ desk' = [desk EXCEPT !.protocols = Append(desk.protocols, name)]
    /\ UNCHANGED <<routes, hasRoutes, middleware, disp, input, output,
                   getWindow, windowsStack, settings, file, events>>

\* init up to await this.app.whenReady()
initCall ==
    /\ ~desk.quit
    /\ desk.pc = "new"
    /\ desk' = [desk EXCEPT !.pc = "whenReady"]
    /\ UNCHANGED <<routes, hasRoutes, middleware, lastError, disp, input,
                   output, getWindow, windowsStack, settings, file, events>>

\* init from readiness up to await this.#detectScreens()
initReady ==
    /\ ~desk.quit
    /\ desk.pc = "whenReady"
    /\ desk' = [desk EXCEPT !.allClosed = Append(desk.allClosed, "inline"),
                            !.hasInit = TRUE, !.pc = "detectScreens"]
    /\ UNCHANGED <<routes, hasRoutes, middleware, lastError, disp, input,
                   output, getWindow, windowsStack, settings, file, events>>

\* init from the detected screens to its end
initDone ==
    /\ ~desk.quit
    /\ desk.pc = "detectScreens"
    /\ desk' = [desk EXCEPT
                  !.ipc = desk.ipc \cup {"callAPI", "emit"},
                  !.allClosed = Append(desk.allClosed, "onAllWindowsClosed"),
                  !.handled = desk.protocols, !.pc = "done"]
    /\ UNCHANGED <<routes, hasRoutes, middleware, lastError, disp, input,
                   output, getWindow, windowsStack, settings, file, events>>

\* createWindow called any number of times
createWindowNext ==
    /\ ~desk.quit
    /\ desk.created < MaxWindows
    /\ createWindowCall
    /\ UNCHANGED <<routes, hasRoutes, middleware, disp, input, output,
                   getWindow, settings, file, events>>

\* onAllWindowsClosed that does not look at the mode
quits_AnyMode(handler, mode, platform) == platform # "darwin"

\* whether a handler of 'window-all-closed' calls app.quit
quits(handler, mode, platform) ==
    IF handler = "inline" THEN platform # "darwin"
    ELSE mode # "keepAlive" /\ platform # "darwin"

\* the user closes a window; the last one closing, the app emits
\* 'window-all-closed' (with no handler subscribed the app quits by itself)
closeWindow(id) ==
    /\ ~desk.quit
    /\ id \in desk.open
    /\ desk' = [desk EXCEPT
                  !.open = desk.open \ {id},
                  !.quit = /\ desk.open = {id}
                           /\ \/ desk.allClosed = <<>>
                              \/ \E n \in 1..Len(desk.allClosed) :
                                    quits(desk.allClosed[n], desk.mode,
                                          desk.platform)]
    /\ UNCHANGED <<routes, hasRoutes, middleware, lastError, disp, input,
                   output, getWindow, windowsStack, settings, file, events>>

\* DesktopClass.emit: webContents.send to every window of the registry, up
\* to the first one whose BrowserWindow is destroyed
emit(name) ==
    /\ ~desk.quit
    /\ IF ~IsSignalName(name)
       THEN /\ lastError' = "emit expects a signal name"
            /\ events' = [events EXCEPT !.sent = <<>>]
       ELSE LET gone == {n \in 1..Len(windowsStack) :
                            windowsStack[n].id \notin desk.open}
                last == IF gone = {} THEN Len(windowsStack)
                        ELSE CHOOSE n \in gone : \A k \in gone : n <= k
            IN  /\ lastError' = IF gone = {} THEN "none"
                                ELSE "Object has been destroyed"
                /\ events' = [events EXCEPT !.sent =
                      [n \in 1..last |->
                          [to |-> windowsStack[n].id, name |-> name.s]]]
    /\ UNCHANGED <<routes, hasRoutes, middleware, disp, input, output,
                   getWindow, windowsStack, settings, file, desk>>

\* DesktopClass.on
on(eventName) ==
    /\ ~desk.quit
    /\ Len(desk.hooks) < MaxHooks
    /\ desk' = [desk EXCEPT !.hooks =
          Append(desk.hooks, [name |-> eventName,
                              cb |-> Listener(0, Len(desk.hooks) + 1)])]
    /\ UNCHANGED <<routes, hasRoutes, middleware, lastError, disp, input,
                   output, getWindow, windowsStack, settings, file, events>>

\* Window.on of a window of the registry
WindowOn(id, eventName) ==
    /\ ~desk.quit
    /\ InStack(id)
    /\ Len(WindowOf(id).hooks) < MaxHooks + 1
    /\ windowsStack' = [n \in 1..Len(windowsStack) |->
          IF windowsStack[n].id = id
          THEN [windowsStack[n] EXCEPT !.hooks =
                  Append(@, [name |-> eventName,
                             cb |-> Listener(id, Len(@) + 1)])]
          ELSE windowsStack[n]]
    /\ UNCHANGED <<routes, hasRoutes, middleware, lastError, disp, input,
                   output, getWindow, deskVars>>

\* the calls hooks[eventName].forEach makes, each with args
callsOf(hooks, eventName, args) ==
    LET named == SelectSeq(hooks, LAMBDA h : h.name = eventName)
    IN  [n \in 1..Len(named) |-> [cb |-> named[n].cb, args |-> args]]

\* onEmit handing the global listeners the data only
globalArgs_DataOnly(eventName, data) == <<data>>

\* onEmit: the arguments the global listeners are called with (...args, the
\* event name still being args[0])
globalArgs(eventName, data) == <<eventName, data>>

\* the renderer of window id calls emit(name, data) of the preload API:
\* ipcRenderer.sendSync("emit", ...) and DesktopClass.onEmit in the main
\* process, Window.onEvent included
rendererEmit(id, name, data) ==
    /\ ~desk.quit
    /\ id \in desk.open
    /\ "emit" \in desk.ipc
    /\ IF ~IsSignalName(name)
       THEN /\ lastError' = "emit expects a signal name"
            /\ events' = [events EXCEPT !.delivered = <<>>]
            /\ UNCHANGED windowsStack
       ELSE IF ~InStack(id)
       THEN /\ lastError' = "TypeError"
            /\ events' = [events EXCEPT !.delivered = <<>>]
            /\ UNCHANGED windowsStack
       ELSE LET own == callsOf(WindowOf(id).hooks, name.s, <<data>>)
                all == callsOf(desk.hooks, name.s, globalArgs(name.s, data))
                removed == {own[n].cb.owner : n \in
                               {k \in 1..Len(own) : own[k].cb.kind = "remove"}}
            IN  /\ lastError' = "none"
                /\ events' = [events EXCEPT !.delivered = own \o all]
                /\ windowsStack' =
                      SelectSeq(windowsStack, LAMBDA e : e.id \notin removed)
    /\ UNCHANGED <<routes, hasRoutes, middleware, disp, input, output,
                   getWindow, settings, file, desk>>

(***************************************************************************)
(* The lifecycle model: mode, protocols, init, windows created and closed, *)
(* and emits, on either platform.                                          *)
(***************************************************************************)
InitLife ==
    /\ routes = [s \in Scopes |-> [m \in Methods |-> <<>>]]
    /\ hasRoutes = [s \in Scopes |-> FALSE]
    /\ middleware = [s \in Scopes |-> <<>>]
    /\ lastError = "none"
    /\ disp = [d \in Dispatches |-> Idle]
    /\ input = ExampleInput
    /\ output = NoOutput
    /\ getWindow = "-"
    /\ windowsStack = <<>>
    /\ settings = <<>>
    /\ file = NoFile
    /\ \E p \in Platforms : desk = [NewDesktop EXCEPT !.platform = p]
    /\ events = NoEvents

NextLife ==
    \/ \E val \in ModesE : setMode(val)
    \/ \E name \in SchemesE : protocol(name)
    \/ initCall
    \/ initReady
    \/ initDone
    \/ createWindowNext
    \/ \E id \in 1..MaxWindows : closeWindow(id)
    \/ \E name \in {StrV(S_ping), StrV(S_blank)} : emit(name)
    \/ \E id \in 1..MaxWindows : rendererEmit(id, StrV(S_close), "data")

SpecLife == InitLife /\ [][NextLife]_vars

(***************************************************************************)
(* The event model: listeners of "ping" on the windows and on the global   *)
(* object, next to each window's own listener of "close", and renderers    *)
(* emitting these names and names that are not signal names.               *)
(***************************************************************************)
InitEvents ==
    /\ routes = [s \in Scopes |-> [m \in Methods |-> <<>>]]
    /\ hasRoutes = [s \in Scopes |-> FALSE]
    /\ middleware = [s \in Scopes |-> <<>>]
    /\ lastError = "none"
    /\ disp = [d \in Dispatches |-> Idle]
    /\ input = ExampleInput
    /\ output = NoOutput
    /\ getWindow = "-"
    /\ windowsStack = <<>>
    /\ InitedDesktop

NextEvents ==
    \/ createWindowNext
    \/ on(S_ping)
    \/ \E id \in 1..MaxWindows : WindowOn(id, S_ping)
    \/ \E id \in 1..MaxWindows, name \in NamesE \cup BadNamesE :
          rendererEmit(id, name, "data")

SpecEvents == InitEvents /\ [][NextEvents]_vars

\* C22: with mode "keepAlive" no step makes the app quit, whatever handler
\* of 'window-all-closed' init subscribed; and assigning a mode other than
\* "keepAlive" and "exitOnAllClose" throws and leaves the mode as it was.
C22_KeepAliveNeverQuits ==
    [][/\ desk.mode = "keepAlive" => desk'.quit = desk.quit
       /\ \A val \in ModesE \ allowedModes :
             setMode(val) => lastError' # "none" /\ desk'.mode = desk.mode]_vars

\* C22, what holds: the mode setter rejects other values and keeps the
\* mode, and on darwin no handler quits; elsewhere the handler init
\* subscribes before onAllWindowsClosed quits in either mode.
C22_SetterGuardsMode ==
    [][/\ desk'.mode \in allowedModes
       /\ \A val \in ModesE \ allowedModes :
             setMode(val) => lastError' # "none" /\ desk'.mode = desk.mode
       /\ desk.platform = "darwin" => ~desk'.quit
       /\ \A id \in 1..MaxWindows :
             (closeWindow(id) /\ desk.open = {id} /\ desk.platform # "darwin")
                => desk'.quit]_vars

\* the names a renderer's emit delivers
Emitted == NamesE \cup BadNamesE

\* the listeners of a hooks list registered for a name, in registration order
ListenersFor(hooks, eventName) ==
    LET named == SelectSeq(hooks, LAMBDA h : h.name = eventName)
    IN  [n \in 1..Len(named) |-> named[n].cb]

\* C23: an emit of name N by a window's renderer calls the listeners of N of
\* the sending window and then those of the global object, each group in
\* registration order and with the emitted data, and no other listener; an
\* emit whose name is not a non-empty string throws and calls none.
C23_FanOut ==
    [][\A id \in 1..MaxWindows, name \in Emitted :
          rendererEmit(id, name, "data") =>
             IF ~IsSignalName(name)
             THEN lastError' # "none" /\ events'.delivered = <<>>
             ELSE /\ [n \in 1..Len(events'.delivered) |->
                         events'.delivered[n].cb]
                       = ListenersFor(WindowOf(id).hooks, name.s)
                            \o ListenersFor(desk.hooks, name.s)
                  /\ \A n \in 1..Len(events'.delivered) :
                        events'.delivered[n].args = <<"data">>]_vars

\* C23, what holds for a sender that is in the registry: the listeners called
\* and their order are as stated, the window's listeners are called with the
\* data and the global ones with the event name followed by the data.
C23_FanOutNameFirst ==
    [][\A id \in 1..MaxWindows, name \in Emitted :
          (rendererEmit(id, name, "data") /\ InStack(id)) =>
             IF ~IsSignalName(name)
             THEN lastError' # "none" /\ events'.delivered = <<>>
             ELSE /\ [n \in 1..Len(events'.delivered) |->
                         events'.delivered[n].cb]
                       = ListenersFor(WindowOf(id).hooks, name.s)
                            \o ListenersFor(desk.hooks, name.s)
                  /\ \A n \in 1..Len(events'.delivered) :
                        events'.delivered[n].args =
                           IF events'.delivered[n].cb.owner = 0
                           THEN <<name.s, "data">> ELSE <<"data">>]_vars

\* C24: a window createWindow returns is in the registry under its id; once
\* it is closed its id is not in the registry any more, so that the registry
\* holds open windows only and a global emit sends to open windows only.
C24_ClosedLeavesRegistry ==
    [][/\ (createWindowNext /\ lastError' = "none") =>
             \E n \in 1..Len(windowsStack') :
                windowsStack'[n].id = idGenerator(desk'.created)
       /\ \A n \in 1..Len(windowsStack') :
             windowsStack'[n].id \in desk'.open
       /\ \A name \in NamesE :
             emit(name) => \A n \in 1..Len(events'.sent) :
                              events'.sent[n].to \in desk.open]_vars

\* C24, what holds: a created window is registered under its id, and only an
\* emit of "close" by a window's renderer takes an id out of the registry.
C24_OnlyCloseEventRemoves ==
    [][/\ (createWindowNext /\ lastError' = "none") =>
             \E n \in 1..Len(windowsStack') :
                windowsStack'[n].id = idGenerator(desk'.created)
       /\ \A id \in 1..MaxWindows :
             closeWindow(id) => windowsStack' = windowsStack
       /\ Len(windowsStack') < Len(windowsStack) =>
             \E id \in desk.open : rendererEmit(id, StrV(S_close), "data")]_vars

====
